---- MODULE Spec2Model ----
(***************************************************************************)
(* RAGChecker parameter analysis (src/analysis/parameter_analysis.py) and  *)
(* its synthetic data generator (src/analysis/generate_test_data.py) as a  *)
(* state machine: the run-record table, the command-line arguments and the *)
(* outcome of every analysis phase are the state, one action per phase.    *)
(* The metric recomputation (src/analysis/recompute_llm_metrics.py) is a   *)
(* second program on the same report files: the files on disk and what     *)
(* process returned are its state, one action per file processed.          *)
(*                                                                         *)
(* Representation of Python values.                                        *)
(*   - a string is the sequence of its character codes (ASCII), so that    *)
(*     ==, sorted(), startswith() and slicing are computed, not assumed;   *)
(*   - a float is an integer number of twentieths (Scale), which holds     *)
(*     every value with one decimal and every median of two such values;   *)
(*   - a Python int is an integer number of units;                         *)
(*   - a cell value is a record [t, n, s]: t is "nan", "float", "int",     *)
(*     "str" or "None", n the number (floats in twentieths), s the string; *)
(*   - a metric (the target, a predicted score) is a float of four         *)
(*     decimals (_extract_row rounds to 4): an integer of ten-thousandths. *)
(***************************************************************************)
EXTENDS Integers, Sequences, FiniteSets, TLC

VARIABLES
  df,            \* the run-record table built by build_dataframe
  feature_cols,  \* get_feature_cols(df): the parameter columns, in order
  args,          \* the parsed command line: phase, suggestions, treatment
  pc,            \* main's position: which phase comes next
  train,         \* what phase2_shap did and returned
  rec,           \* what phase3_optuna did and returned
  causal,        \* what phase4_dowhy did
  oracle,        \* what the libraries return on this table: the fitted ensemble,
                 \* the cross-validated R2, mean |SHAP|, the sort's order of
                 \* ties, the sampler's batch and the causal estimates
  files,         \* recompute_llm_metrics: the report files on disk, in the
                 \* order find_report_files lists them
  dry_run,       \* recompute_llm_metrics: --dry-run
  returned,      \* recompute_llm_metrics: what process returned, file by file
  surrogate      \* _build_surrogate: the call (model_type, n_samples, whether
                 \* xgboost imports) and the regressor it returned

vars ==
  <<df, feature_cols, args, pc, train, rec, causal, oracle, files, dry_run, returned,
    surrogate>>

\* the state of the metric recomputation, which the analysis never touches
recompute_vars == <<files, dry_run, returned>>

-----------------------------------------------------------------------------
(* Bounds of the model *)

\* most runs in the table
MaxRuns == 7
\* largest --suggestions value
MaxSuggestions == 2
\* the sampler's batch repeats a plan of at most this many assignments
MaxPlan == 2
\* largest mean |SHAP| value a feature is given
MaxImportance == 1

(* Program constants *)

MIN_RUNS_FOR_ML == 5
MinCausalRuns == 6
MaxCategoricalDistinct == 5
MaxIntDistinct == 30
CandidatesPerSuggestion == 40
TopFeatures == 4
MaxCounterfactuals == 5

\* twentieths per unit: the resolution floats are stored in
Scale == 4 * 5

-----------------------------------------------------------------------------
(* Python values *)

NaN == [t |-> "nan", n |-> 0, s |-> <<>>]
PyFloat(x) == [t |-> "float", n |-> x, s |-> <<>>]
PyInt(k) == [t |-> "int", n |-> k, s |-> <<>>]
PyStr(chars) == [t |-> "str", n |-> 0, s |-> chars]
\* Python's None: a JSON null read from a report
None == [t |-> "None", n |-> 0, s |-> <<>>]
\* the absent value: dict.get's default ""
Absent == [t |-> "absent", n |-> 0, s |-> <<>>]

\* isinstance(v, float) and np.isnan(v)
isnan(v) == v.t = "nan"
\* pd.isna(v)
isna(v) == v.t \in {"nan", "None"}

Abs(x) == IF x < 0 THEN -x ELSE x
Min2(a, b) == IF a < b THEN a ELSE b
Max2(a, b) == IF a > b THEN a ELSE b

RECURSIVE NatStr(_)
\* the decimal digits of a natural number
NatStr(k) == IF k < 10 THEN <<48 + k>> ELSE NatStr(k \div 10) \o <<48 + (k % 10)>>

\* str(k) of a Python int
IntStr(k) == IF k < 0 THEN <<45>> \o NatStr(-k) ELSE NatStr(k)

\* str(x) of a Python float: shortest repr, always with a fractional part
FloatStr(x) ==
  LET a == Abs(x)
      hundredths == (a % Scale) * 5
      frac == IF hundredths % 10 = 0
              THEN <<48 + (hundredths \div 10)>>
              ELSE <<48 + (hundredths \div 10), 48 + (hundredths % 10)>>
  IN  (IF x < 0 THEN <<45>> ELSE <<>>) \o NatStr(a \div Scale) \o <<46>> \o frac

\* "nan"
NanStr == <<110, 97, 110>>

\* Python's str(v)
str(v) ==
  CASE v.t = "str" -> v.s
    [] v.t = "int" -> IntStr(v.n)
    [] v.t = "float" -> FloatStr(v.n)
    [] v.t = "nan" -> NanStr
    [] v.t = "None" -> <<78, 111, 110, 101>>
    [] OTHER -> <<>>

\* the digits of s as a natural number
RECURSIVE ParseNat(_)
ParseNat(s) ==
  IF s = <<>> THEN 0
  ELSE 10 * ParseNat(SubSeq(s, 1, Len(s) - 1)) + (s[Len(s)] - 48)

\* float(s) of a decimal string such as "512", "512.0", "-0.25"; "nan" is NaN
ParseFloat(s) ==
  IF s = NanStr THEN NaN
  ELSE
    LET neg == s # <<>> /\ s[1] = 45
        body == IF neg THEN Tail(s) ELSE s
        dots == {i \in 1..Len(body) : body[i] = 46}
        dot == IF dots = {} THEN Len(body) + 1 ELSE CHOOSE i \in dots : TRUE
        whole == ParseNat(SubSeq(body, 1, dot - 1))
        fr == SubSeq(body, dot + 1, Len(body))
        hundredths == IF Len(fr) = 0 THEN 0
                      ELSE IF Len(fr) = 1 THEN 10 * ParseNat(fr)
                      ELSE ParseNat(SubSeq(fr, 1, 2))
        mag == whole * Scale + (hundredths \div 5)
    IN  PyFloat(IF neg THEN -mag ELSE mag)

\* float(v): the number of a value, in twentieths
float(v) ==
  CASE v.t = "float" -> v
    [] v.t = "int" -> PyFloat(v.n * Scale)
    [] v.t = "str" -> ParseFloat(v.s)
    [] OTHER -> NaN

\* int(x) of a float: truncation toward zero
TruncInt(x) == IF x < 0 THEN -((-x) \div Scale) ELSE x \div Scale

\* the number of a numeric cell, in twentieths
Num(v) == IF v.t = "int" THEN v.n * Scale ELSE v.n

\* a < b for Python strings: lexicographic by character code
LexLess(a, b) ==
  \E k \in 1..Len(b) :
    /\ k - 1 <= Len(a)
    /\ \A i \in 1..(k - 1) : a[i] = b[i]
    /\ (k = Len(a) + 1 \/ a[k] < b[k])

RECURSIVE sorted(_)
\* sorted(...) of a collection of distinct strings
sorted(S) ==
  IF S = {} THEN <<>>
  ELSE LET m == CHOOSE x \in S : \A y \in S \ {x} : LexLess(x, y)
       IN  <<m>> \o sorted(S \ {m})

\* s.startswith(prefix)
startswith(s, prefix) ==
  Len(prefix) <= Len(s) /\ SubSeq(s, 1, Len(prefix)) = prefix

Range(s) == {s[i] : i \in DOMAIN s}

RECURSIVE SumSeq(_)
SumSeq(s) == IF s = <<>> THEN 0 ELSE s[1] + SumSeq(Tail(s))

-----------------------------------------------------------------------------
(* The run-record table.  A row is [label, target, cells]: the run label,   *)
(* the target metric (a float or NaN) and one cell per feature column.      *)

\* df[col]
Column(d, j) == [i \in 1..Len(d) |-> d[i].cells[j]]

\* df[target]
TargetColumn(d) == [i \in 1..Len(d) |-> d[i].target]

\* series.dropna()
dropna(series) == SelectSeq(series, LAMBDA v : ~isna(v))

\* pd.api.types.is_numeric_dtype(series): int64 or float64, not object
is_numeric_dtype(series) == \A i \in DOMAIN series : series[i].t \in {"int", "float", "nan"}

\* series.nunique(): distinct non-missing values
nunique(series) == Cardinality(Range(dropna(series)))

RECURSIVE UniqueFrom(_, _)
UniqueFrom(series, seen) ==
  IF series = <<>> THEN <<>>
  ELSE IF series[1] \in seen THEN UniqueFrom(Tail(series), seen)
  ELSE <<series[1]>> \o UniqueFrom(Tail(series), seen \cup {series[1]})

\* series.unique(): distinct values in order of first appearance
unique(series) == UniqueFrom(series, {})

RECURSIVE SortNums(_)
\* numbers in ascending order
SortNums(S) ==
  IF S = <<>> THEN <<>>
  ELSE LET k == CHOOSE i \in DOMAIN S : \A j \in DOMAIN S : S[i] <= S[j]
       IN  <<S[k]>> \o SortNums(SubSeq(S, 1, k - 1) \o SubSeq(S, k + 1, Len(S)))

\* series.median() of a numeric series: NaN skipped, NaN when nothing is left
median(series) ==
  LET xs == SortNums([i \in 1..Len(dropna(series)) |-> Num(dropna(series)[i])])
      m == Len(xs)
  IN  IF m = 0 THEN NaN
      ELSE IF m % 2 = 1 THEN PyFloat(xs[(m + 1) \div 2])
      ELSE PyFloat((xs[m \div 2] + xs[m \div 2 + 1]) \div 2)

\* series.min(), series.max() of a numeric series without NaN, in twentieths
SeriesMin(series) == CHOOSE x \in {Num(v) : v \in Range(series)} :
                       \A y \in {Num(v) : v \in Range(series)} : x <= y
SeriesMax(series) == CHOOSE x \in {Num(v) : v \in Range(series)} :
                       \A y \in {Num(v) : v \in Range(series)} : x >= y

\* f"{col}_{value}": the name of an indicator column
DummyName(col, category) == col \o <<95>> \o category

RECURSIVE Flatten(_)
Flatten(ss) == IF ss = <<>> THEN <<>> ELSE ss[1] \o Flatten(Tail(ss))

\* the values of the series cannot be ordered: a str beside a number
Unorderable(series) ==
  \E a, b \in Range(dropna(series)) : a.t = "str" /\ b.t # "str"

\* the categories pd.get_dummies makes columns for, NaN left out: sorted, and
\* in the order of first appearance when the values cannot be ordered
DummyCategories(series) ==
  IF Unorderable(series)
  THEN [k \in 1..Len(unique(dropna(series))) |-> str(unique(dropna(series))[k])]
  ELSE sorted({str(v) : v \in Range(dropna(series))})

(* encode_features: the encoded table, as [columns, src, rows].  columns is *)
(* the column names; src[c] says where column c comes from: [j, cat] with   *)
(* cat = <<>> for the numeric feature j and the category string otherwise.  *)
EncodedSources(d, fcols) ==
  LET numeric == SelectSeq([j \in 1..Len(fcols) |-> j],
                           LAMBDA j : is_numeric_dtype(Column(d, j)))
      object == SelectSeq([j \in 1..Len(fcols) |-> j],
                          LAMBDA j : ~is_numeric_dtype(Column(d, j)))
  IN  [k \in 1..Len(numeric) |-> [j |-> numeric[k], dummy |-> FALSE, cat |-> <<>>]]
      \o Flatten([k \in 1..Len(object) |->
            LET cats == DummyCategories(Column(d, object[k]))
            IN  [c \in 1..Len(cats) |-> [j |-> object[k], dummy |-> TRUE, cat |-> cats[c]]]])

\* a cell that is left as it is when the value is missing
C26_EncodedCellNotImputed(d, i, src) ==
  LET v == d[i].cells[src.j]
  IN  IF src.dummy
      THEN (IF ~isna(v) /\ str(v) = src.cat THEN PyFloat(Scale) ELSE PyFloat(0))
      ELSE (IF isna(v) THEN NaN ELSE float(v))

\* one cell of the encoded table
EncodedCell(d, i, src) ==
  LET v == d[i].cells[src.j]
  IN  IF src.dummy
      THEN (IF ~isna(v) /\ str(v) = src.cat THEN PyFloat(Scale) ELSE PyFloat(0))
      ELSE (IF isna(v) THEN median(Column(d, src.j)) ELSE float(v))

\* pd.concat(parts, axis=1): the columns src names, numeric ones first
EncodedTable(d, fcols, src) ==
  [some |-> TRUE,
   columns |-> [c \in 1..Len(src) |->
                  IF src[c].dummy THEN DummyName(fcols[src[c].j], src[c].cat)
                  ELSE fcols[src[c].j]],
   rows |-> [i \in 1..Len(d) |-> [c \in 1..Len(src) |-> EncodedCell(d, i, src[c])]]]

encode_features(d, fcols) == EncodedTable(d, fcols, EncodedSources(d, fcols))

\* the cells encode_features assigns to its working table df_enc (line 168):
\* the numeric columns with the median in place of NaN
MedianFilled(d, fcols) ==
  [i \in 1..Len(d) |->
     [d[i] EXCEPT !.cells =
        [j \in 1..Len(fcols) |->
           IF is_numeric_dtype(Column(d, j)) /\ isna(d[i].cells[j])
           THEN median(Column(d, j)) ELSE d[i].cells[j]]]]

\* the table is handed over as df[...].copy() but its cells are the same
\* objects: what is assigned to the working table is assigned to df
C13_AfterAlias(d, working) == working

\* what df holds once a component has assigned to its working table: the
\* working table is df[...].copy() (lines 163 and 791), so df keeps its cells
AfterCopy(d, working) == d

-----------------------------------------------------------------------------
(* Phase 3: the parameter space and the trials seeded from history *)

NoDomain == [kind |-> "absent", choices |-> <<>>, lo |-> 0, hi |-> 0]
Categorical(cats) == [kind |-> "categorical", choices |-> cats, lo |-> 0, hi |-> 0]
IntRange(lo, hi) == [kind |-> "int", choices |-> <<>>, lo |-> lo, hi |-> hi]
FloatRange(lo, hi) == [kind |-> "float", choices |-> <<>>, lo |-> lo, hi |-> hi]

\* (series == series.round().values).all()
AllWhole(series) == \A v \in Range(series) : Num(v) % Scale = 0

\* whole numbers always make an integer domain, however many are distinct
C15_InferDomainIntUncapped(column) ==
  LET series == dropna(column)
  IN  IF Len(series) = 0 THEN NoDomain
      ELSE IF ~is_numeric_dtype(column) \/ nunique(series) <= MaxCategoricalDistinct
        THEN Categorical(sorted({str(v) : v \in Range(series)}))
      ELSE IF AllWhole(series)
        THEN IntRange(TruncInt(SeriesMin(series)), TruncInt(SeriesMax(series)))
      ELSE FloatRange(SeriesMin(series), SeriesMax(series))

\* a numeric column always makes a range, also of one value
C16_InferDomainAlwaysRange(column) ==
  LET series == dropna(column)
  IN  IF Len(series) = 0 THEN NoDomain
      ELSE IF ~is_numeric_dtype(column)
        THEN Categorical(sorted({str(v) : v \in Range(series)}))
      ELSE IF AllWhole(series) /\ nunique(series) <= MaxIntDistinct
        THEN IntRange(TruncInt(SeriesMin(series)), TruncInt(SeriesMax(series)))
      ELSE FloatRange(SeriesMin(series), SeriesMax(series))

\* the domain _infer_param_space gives one column; "absent" when it is skipped
InferDomain(column) ==
  LET series == dropna(column)
  IN  IF Len(series) = 0 THEN NoDomain
      ELSE IF ~is_numeric_dtype(column) \/ nunique(series) <= MaxCategoricalDistinct
        THEN Categorical(sorted({str(v) : v \in Range(series)}))
      ELSE IF AllWhole(series) /\ nunique(series) <= MaxIntDistinct
        THEN LET lo == TruncInt(SeriesMin(series))
                 hi == TruncInt(SeriesMax(series))
             IN  IF lo < hi THEN IntRange(lo, hi) ELSE Categorical(<<IntStr(lo)>>)
      ELSE LET lo == SeriesMin(series)
               hi == SeriesMax(series)
           IN  IF lo < hi THEN FloatRange(lo, hi) ELSE Categorical(<<FloatStr(lo)>>)

\* _infer_param_space: one domain per feature column
_infer_param_space(d, fcols) == [j \in 1..Len(fcols) |-> InferDomain(Column(d, j))]

\* the cell's value ignored: always the first choice or the middle of the range
C9_TrialValueSubstituted(raw, spec) ==
  CASE spec.kind = "categorical" -> PyStr(spec.choices[1])
    [] spec.kind = "int" -> PyInt((spec.lo + spec.hi) \div 2)
    [] spec.kind = "float" -> PyFloat((spec.lo + spec.hi) \div 2)
    [] OTHER -> Absent

\* the value _add_past_trials puts in the trial for one cell
TrialValue(raw, spec) ==
  CASE spec.kind = "categorical" ->
         LET val == IF ~isnan(raw) THEN str(raw) ELSE spec.choices[1]
         IN  PyStr(IF val \in Range(spec.choices) THEN val ELSE spec.choices[1])
    [] spec.kind = "int" ->
         LET val == IF ~isnan(raw) THEN TruncInt(Num(raw)) ELSE (spec.lo + spec.hi) \div 2
         IN  PyInt(Max2(spec.lo, Min2(spec.hi, val)))
    [] spec.kind = "float" ->
         LET val == IF ~isnan(raw) THEN Num(raw) ELSE (spec.lo + spec.hi) \div 2
         IN  PyFloat(Max2(spec.lo, Min2(spec.hi, val)))
    [] OTHER -> Absent

\* _add_past_trials: one trial per run with a target, in input order
_add_past_trials(d, fcols, space) ==
  LET withTarget == SelectSeq([i \in 1..Len(d) |-> i], LAMBDA i : ~isna(d[i].target))
  IN  [k \in 1..Len(withTarget) |->
        [run |-> withTarget[k],
         params |-> [j \in 1..Len(fcols) |-> TrialValue(d[withTarget[k]].cells[j], space[j])],
         value |-> d[withTarget[k]].target.n]]

\* tuple(str(p.get(c, "")) for c in feature_cols)
ConfigKey(params) == [j \in 1..Len(params) |-> str(params[j])]

\* existing_keys: the key of every row of the table
ExistingKeys(d) == {ConfigKey(d[i].cells) : i \in 1..Len(d)}

-----------------------------------------------------------------------------
(* The surrogate model.  A fitted tree ensemble is a sequence of stumps     *)
(* [col, thr, gain]: the prediction of a feature vector x is the sum of the *)
(* gains of the stumps with x[col] > thr.  Which ensemble the library fits  *)
(* is the environment's choice (oracle).                                    *)

\* surrogate_model.predict(X_cand)[0]; a NaN cell is not above any threshold
predict(model, x) ==
  SumSeq([k \in 1..Len(model) |->
            IF ~isnan(x[model[k].col]) /\ x[model[k].col].n > model[k].thr
            THEN model[k].gain ELSE 0])

\* the split points a tree can choose in column c: between two training values
SplitPoints(X, c) ==
  LET vals == {X.rows[i][c].n : i \in {k \in 1..Len(X.rows) : ~isnan(X.rows[k][c])}}
  IN  {(a + b) \div 2 : <<a, b>> \in {<<a, b>> \in vals \X vals :
                                        a < b /\ ~\E m \in vals : a < m /\ m < b}}

\* the stumps a fit on X can produce
Stumps(X) ==
  UNION {{[col |-> c, thr |-> t, gain |-> g] : t \in SplitPoints(X, c), g \in {-1, 1}}
         : c \in 1..Len(X.columns)}

-----------------------------------------------------------------------------
(* Phase 3: _suggest_next *)

\* the values the sampler can suggest in one domain
DomainSamples(spec) ==
  CASE spec.kind = "categorical" -> {PyStr(spec.choices[k]) : k \in 1..Len(spec.choices)}
    [] spec.kind = "int" -> {PyInt(k) : k \in spec.lo..spec.hi}
    [] spec.kind = "float" ->
         {PyFloat(x) : x \in {spec.lo, spec.hi, (spec.lo + spec.hi) \div 2}
                          \cup {y \in spec.lo..spec.hi : y % (Scale \div 2) = 0}}
    [] OTHER -> {Absent}

\* every assignment trial.suggest_* can return over the space
Assignments(space) ==
  {p \in [1..Len(space) -> UNION {DomainSamples(space[j]) : j \in 1..Len(space)}] :
     \A j \in 1..Len(space) : p[j] \in DomainSamples(space[j])}

\* the batches of the seeded sampler: a plan of assignments, drawn in turn
SamplerPlans(space) ==
  UNION {[1..k -> Assignments(space)] : k \in 1..MaxPlan}

\* the assignment of the i-th ask()/tell() round
Draw(plan, i) == plan[((i - 1) % Len(plan)) + 1]

\* the filter left out: every sampled assignment is kept
C1_IsUnseenDropped(key, existing_keys) == TRUE

\* key not in existing_keys
IsUnseen(key, existing_keys) == key \notin existing_keys

\* the candidates list after the n * 40 rounds
SampleCandidates(plan, n, existing_keys) ==
  SelectSeq([i \in 1..(n * CandidatesPerSuggestion) |-> Draw(plan, i)],
            LAMBDA p : IsUnseen(ConfigKey(p), existing_keys))

\* the feature whose prefix f"{fc}_" the column name starts with, 0 when none
PrefixOwner(col, fcols) ==
  LET owners == {j \in 1..Len(fcols) : startswith(col, fcols[j] \o <<95>>)}
  IN  IF owners = {} THEN 0 ELSE CHOOSE j \in owners : \A k \in owners : j <= k

\* X_train[col].median()
EncodedMedian(X, c) == median([i \in 1..Len(X.rows) |-> X.rows[i][c]])

\* row_enc[col] for one candidate and one column of X_train
CandidateCell(cand, X, c, fcols) ==
  LET col == X.columns[c]
      owner == PrefixOwner(col, fcols)
      named == {j \in 1..Len(fcols) : fcols[j] = col /\ cand[j] # Absent}
  IN  IF owner # 0
      THEN (IF str(cand[owner]) = SubSeq(col, Len(fcols[owner]) + 2, Len(col))
            THEN PyFloat(Scale) ELSE PyFloat(0))
      ELSE IF named # {} THEN float(cand[CHOOSE j \in named : TRUE])
      ELSE EncodedMedian(X, c)

\* X_cand: the candidate as one row over X_train.columns
EncodeCandidate(cand, X, fcols) ==
  [c \in 1..Len(X.columns) |-> CandidateCell(cand, X, c, fcols)]

RECURSIVE SortByScoreDesc(_)
\* list.sort(key=score, reverse=True): stable, equal scores keep their order
SortByScoreDesc(scored) ==
  IF scored = <<>> THEN <<>>
  ELSE LET top == CHOOSE s \in {scored[i].score : i \in DOMAIN scored} :
                    \A i \in DOMAIN scored : scored[i].score <= s
       IN  SelectSeq(scored, LAMBDA e : e.score = top)
           \o SortByScoreDesc(SelectSeq(scored, LAMBDA e : e.score # top))

\* the deduplication left out: every scored candidate is kept
C17_UniqueByKeySkipped(scored, seen) == scored

RECURSIVE UniqueByKey(_, _)
\* the first entry of every configuration key, in order
UniqueByKey(scored, seen) ==
  IF scored = <<>> THEN <<>>
  ELSE IF ConfigKey(scored[1].params) \in seen THEN UniqueByKey(Tail(scored), seen)
  ELSE <<scored[1]>>
       \o UniqueByKey(Tail(scored), seen \cup {ConfigKey(scored[1].params)})

\* unique[:n]
Take(s, n) == SubSeq(s, 1, Min2(n, Len(s)))

\* the surrogate branch: score, sort, deduplicate, cut
ScoredSuggestions(candidates, model, X, fcols, n) ==
  LET scored == [k \in 1..Len(candidates) |->
                   [params |-> candidates[k],
                    score |-> predict(model, EncodeCandidate(candidates[k], X, fcols))]]
  IN  Take(UniqueByKey(SortByScoreDesc(scored), {}), n)

RECURSIVE FallbackScan(_, _, _, _)
\* the fallback loop over the sorted trials, with its break
FallbackScan(trials, existing_keys, n, result) ==
  IF trials = <<>> THEN result
  ELSE LET t == trials[1]
           next == IF IsUnseen(ConfigKey(t.params), existing_keys)
                   THEN Append(result, [params |-> t.params, score |-> t.score])
                   ELSE result
       IN  IF Len(next) >= n THEN next
           ELSE FallbackScan(Tail(trials), existing_keys, n, next)

\* the fallback branch: the study's own trials by value
FallbackSuggestions(trials, existing_keys, n) ==
  FallbackScan(SortByScoreDesc([k \in 1..Len(trials) |->
                                  [params |-> trials[k].params, score |-> trials[k].value]]),
               existing_keys, n, <<>>)

\* _suggest_next, for the batch the sampler draws
_suggest_next(trials, space, surrogate_model, X_train, fcols, n, df_existing, plan) ==
  IF SampleCandidates(plan, n, ExistingKeys(df_existing)) = <<>> THEN <<>>
  ELSE IF surrogate_model.some /\ X_train.some
  THEN ScoredSuggestions(SampleCandidates(plan, n, ExistingKeys(df_existing)),
                         surrogate_model.stumps, X_train, fcols, n)
  ELSE FallbackSuggestions(trials, ExistingKeys(df_existing), n)

-----------------------------------------------------------------------------
(* Phase 2: phase2_shap *)

\* Python's None for the surrogate and for the encoded table
NoModel == [some |-> FALSE, stumps |-> <<>>]
NoTable == [some |-> FALSE, columns |-> <<>>, rows |-> <<>>]

\* the warning threshold lowered to 0.1
C6_WeakR2Lowered == Scale \div 10

\* 0.3, the cross-validated R2 below which the signal is called weak
WeakR2 == (3 * Scale) \div 10

\* scores.mean() of cross_val_score: the environment's, NaN included
R2Outcomes == {NaN, PyFloat(-Scale), PyFloat(WeakR2 - 1), PyFloat(WeakR2), PyFloat(Scale - 4)}

\* df[target].fillna(0).values
TargetFilled(d) == [i \in 1..Len(d) |-> IF isna(d[i].target) THEN 0 ELSE d[i].target.n]

\* the guard without its column test
C5_TooSmallToFitRowsOnly(X) == Len(X.rows) < 2

\* X.empty or len(X) < 2 or X.shape[1] == 0
TooSmallToFit(X) == Len(X.rows) = 0 \/ Len(X.columns) = 0 \/ Len(X.rows) < 2

\* the orders a sort can leave equal keys in: every permutation of the columns
TieOrders(n) == {p \in [1..n -> 1..n] : \A i, j \in 1..n : p[i] = p[j] => i = j}

\* the order of a stable sort: equal keys keep their column order
StableOrder(n) == [c \in 1..n |-> c]

RECURSIVE sort_values(_, _, _)
(* imp_df.sort_values("importance", ascending=True): the default sort is    *)
(* not stable, so the columns of equal importance come out in the order     *)
(* the sort leaves them in (order, a permutation of the columns)            *)
sort_values(cols, imp, order) ==
  IF cols = {} THEN <<>>
  ELSE LET low == CHOOSE x \in {imp[c] : c \in cols} : \A c \in cols : x <= imp[c]
       IN  SelectSeq(order, LAMBDA c : c \in cols /\ imp[c] = low)
           \o sort_values({c \in cols : imp[c] # low}, imp, order)

\* imp_df.iloc[::-1]
Reverse(s) == [i \in 1..Len(s) |-> s[Len(s) + 1 - i]]

\* imp_df.tail(min(4, len(imp_df)))
Tail4(s) == SubSeq(s, Len(s) - Min2(TopFeatures, Len(s)) + 1, Len(s))

\* --model left out: "rf"
DEFAULT_MODEL == "rf"

\* no regressor
NoSurrogate == [kind |-> "", n_estimators |-> 0, max_depth |-> 0, warned |-> FALSE]

\* the sizes without the upper bound on the number of estimators
C25_BuildSurrogateUncapped(model_type, n_samples, xgboost) ==
  [kind |-> IF model_type = "xgb" /\ xgboost THEN "xgb" ELSE "rf",
   n_estimators |-> Max2(50, n_samples * 15),
   max_depth |-> Max2(2, Min2(5, n_samples - 1)),
   warned |-> FALSE]

\* _build_surrogate: the XGBRegressor when it is asked for and xgboost
\* imports, the RandomForestRegressor otherwise, after the warning when
\* xgboost is missing
_build_surrogate(model_type, n_samples, xgboost) ==
  IF model_type = "xgb" /\ xgboost
  THEN [kind |-> "xgb",
        n_estimators |-> Min2(300, Max2(50, n_samples * 15)),
        max_depth |-> Min2(4, Max2(2, n_samples - 1)),
        warned |-> FALSE]
  ELSE [kind |-> "rf",
        n_estimators |-> Min2(300, Max2(50, n_samples * 15)),
        max_depth |-> Max2(2, Min2(5, n_samples - 1)),
        warned |-> model_type = "xgb"]

\* nothing was built
NotBuilt == [model_type |-> "", n_samples |-> 0, xgboost |-> FALSE, model |-> NoSurrogate]

\* the call and what it returned
Built(model_type, n_samples, xgboost) ==
  [model_type |-> model_type, n_samples |-> n_samples, xgboost |-> xgboost,
   model |-> _build_surrogate(model_type, n_samples, xgboost)]

NotTrained ==
  [ran |-> FALSE, low_confidence |-> FALSE, fitted |-> FALSE, y |-> <<>>,
   cv_r2 |-> Absent, weak_warning |-> FALSE, importance |-> <<>>,
   ranking |-> <<>>, top4 |-> <<>>, model |-> NoModel, X |-> NoTable]

\* the fit, the cross-validation and the ranking, imp_df being the columns
\* sorted by importance
Fitted(d, X, forest, r2, imp, imp_df) ==
  [ran |-> TRUE, low_confidence |-> Len(d) < MIN_RUNS_FOR_ML, fitted |-> TRUE,
   y |-> TargetFilled(d),
   cv_r2 |-> IF Len(d) >= MIN_RUNS_FOR_ML THEN r2 ELSE Absent,
   weak_warning |-> Len(d) >= MIN_RUNS_FOR_ML /\ ~isnan(r2) /\ r2.n < WeakR2,
   importance |-> imp,
   ranking |-> [k \in 1..Len(imp_df) |-> X.columns[Reverse(imp_df)[k]]],
   top4 |-> [k \in 1..Len(Tail4(imp_df)) |-> X.columns[Tail4(imp_df)[k]]],
   model |-> [some |-> TRUE, stumps |-> forest], X |-> X]

\* phase2_shap on the encoded table X
TrainOn(d, X, forest, r2, imp, order) ==
  IF TooSmallToFit(X)
  THEN [NotTrained EXCEPT !.ran = TRUE, !.low_confidence = Len(d) < MIN_RUNS_FOR_ML]
  ELSE Fitted(d, X, forest, r2, imp, sort_values(1..Len(X.columns), imp, order))

\* phase2_shap's outcome for the library results: the fitted ensemble, r2
\* (cross-validation), imp (mean |SHAP| per column of X) and the sort's order
phase2_shap(d, fcols, forest, r2, imp, order) ==
  TrainOn(d, encode_features(d, fcols), forest, r2, imp, order)

-----------------------------------------------------------------------------
(* Phase 3: phase3_optuna *)

NotRecommended ==
  [ran |-> FALSE, outcome |-> "not_run", space |-> <<>>, trials |-> <<>>,
   drawn |-> 0, unseen |-> 0, suggestions |-> <<>>]

\* if not space: every column was skipped by _infer_param_space
SpaceIsEmpty(space) == \A j \in 1..Len(space) : space[j].kind = "absent"

\* the study's outcome: the suggestions saved, or none
Recommended(space, trials, n, candidates, suggestions) ==
  [ran |-> TRUE,
   outcome |-> IF suggestions = <<>> THEN "no_suggestions" ELSE "saved",
   space |-> space, trials |-> trials,
   drawn |-> n * CandidatesPerSuggestion,
   unseen |-> Len(candidates),
   suggestions |-> suggestions]

\* phase3_optuna on the space inferred: the study on the trials seeded from
\* history
StudyOn(d, fcols, n, surrogate_model, X_encoded, plan, space) ==
  IF SpaceIsEmpty(space)
  THEN [NotRecommended EXCEPT !.ran = TRUE, !.outcome = "no_space", !.space = space]
  ELSE Recommended(space, _add_past_trials(d, fcols, space), n,
                   SampleCandidates(plan, n, ExistingKeys(d)),
                   _suggest_next(_add_past_trials(d, fcols, space), space, surrogate_model,
                                 X_encoded, fcols, n, d, plan))

\* phase3_optuna's outcome for the batch the sampler draws
phase3_optuna(d, fcols, n, surrogate_model, X_encoded, plan) ==
  StudyOn(d, fcols, n, surrogate_model, X_encoded, plan, _infer_param_space(d, fcols))

-----------------------------------------------------------------------------
(* Phase 4: phase4_dowhy *)

\* the feature column named treatment_col, 0 when there is none
ColumnIndex(name, fcols) ==
  IF \E j \in 1..Len(fcols) : fcols[j] = name
  THEN CHOOSE j \in 1..Len(fcols) : fcols[j] = name /\ \A k \in 1..(j - 1) : fcols[k] # name
  ELSE 0

\* binary_feats: the columns with exactly two distinct values
BinaryFeats(d, fcols) ==
  SelectSeq([j \in 1..Len(fcols) |-> j], LAMBDA j : nunique(Column(d, j)) = 2)

\* cat_feats: the non-numeric columns with at least two distinct values
CatFeats(d, fcols) ==
  SelectSeq([j \in 1..Len(fcols) |-> j],
            LAMBDA j : ~is_numeric_dtype(Column(d, j)) /\ nunique(Column(d, j)) >= 2)

\* df.loc[df[feat] == val, target].dropna()
GroupTargets(d, j, val) ==
  dropna(TargetColumn(SelectSeq(d, LAMBDA row : row.cells[j] = val)))

\* the (feature, category) pairs the priority-2 loops visit, in order, that
\* have at least two targets
CategoryGroups(d, fcols) ==
  LET feats == CatFeats(d, fcols)
  IN  SelectSeq(
        Flatten([k \in 1..Len(feats) |->
                   LET vals == unique(dropna(Column(d, feats[k])))
                   IN  [v \in 1..Len(vals) |->
                          LET grp == GroupTargets(d, feats[k], vals[v])
                          IN  [feat |-> feats[k], val |-> vals[v], size |-> Len(grp),
                               sum |-> SumSeq([i \in 1..Len(grp) |-> grp[i].n])]]]),
        LAMBDA g : g.size >= 2)

\* grp.mean() - overall_mean of a is above that of b
DeltaAbove(a, b) == a.sum * b.size > b.sum * a.size

\* the place of the first group no other group's delta exceeds
BestGroup(groups) ==
  CHOOSE i \in 1..Len(groups) :
    /\ \A m \in 1..Len(groups) : ~DeltaAbove(groups[m], groups[i])
    /\ \A m \in 1..(i - 1) : DeltaAbove(groups[i], groups[m])

\* best_feat, best_cat among the groups, feat = 0 when there is no group
BestOf(groups) ==
  IF groups = <<>> THEN [feat |-> 0, val |-> NaN]
  ELSE [feat |-> groups[BestGroup(groups)].feat, val |-> groups[BestGroup(groups)].val]

\* n * sum(x^2) - sum(x)^2 and n * (n - 1): df[c].std() squared as a fraction
VarNum(series) ==
  LET xs == [i \in 1..Len(dropna(series)) |-> Num(dropna(series)[i])]
  IN  Len(xs) * SumSeq([i \in 1..Len(xs) |-> xs[i] * xs[i]]) - SumSeq(xs) * SumSeq(xs)
VarDen(series) == Len(dropna(series)) * (Len(dropna(series)) - 1)

\* df[a].std() > df[b].std()
StdAbove(d, a, b) ==
  VarNum(Column(d, a)) * VarDen(Column(d, b)) > VarNum(Column(d, b)) * VarDen(Column(d, a))

\* num_varying[0]: the first numeric varying column of highest std, 0 when none
HighestVariance(d, fcols) ==
  LET nums == SelectSeq([j \in 1..Len(fcols) |-> j],
                        LAMBDA j : is_numeric_dtype(Column(d, j)) /\ nunique(Column(d, j)) > 1)
  IN  IF nums = <<>> THEN 0
      ELSE nums[CHOOSE i \in 1..Len(nums) :
                  /\ \A m \in 1..Len(nums) : ~StdAbove(d, nums[m], nums[i])
                  /\ \A m \in 1..(i - 1) : StdAbove(d, nums[i], nums[m])]

\* the priority rules of the automatic choice
AutoSelect(d, fcols, binary_feats, best) ==
  IF binary_feats # <<>>
  THEN [col |-> binary_feats[1], pos_val |-> NaN, rule |-> "binary"]
  ELSE IF best.feat # 0
  THEN [col |-> best.feat, pos_val |-> best.val, rule |-> "category"]
  ELSE [col |-> HighestVariance(d, fcols), pos_val |-> NaN, rule |-> "variance"]

\* bool(treatment_col): a string that is not empty
Truthy(v) == v.t = "str" /\ v.s # <<>>

\* treatment_col after "if treatment_col and treatment_col not in feature_cols":
\* a name that is no feature column is replaced by None, the empty string and
\* None are left as they are
ValidatedTreatment(fcols, treatment_col) ==
  IF Truthy(treatment_col) /\ ColumnIndex(treatment_col.s, fcols) = 0
  THEN None ELSE treatment_col

\* the treatment phase4_dowhy settles on: [col, pos_val, rule]; col = 0 when
\* no feature is suitable (rule "variance") and when the name supplied is not
\* a column of the table (rule "given")
SelectTreatment(d, fcols, treatment_col) ==
  IF ValidatedTreatment(fcols, treatment_col) = None
  THEN AutoSelect(d, fcols, BinaryFeats(d, fcols), BestOf(CategoryGroups(d, fcols)))
  ELSE [col |-> ColumnIndex(str(treatment_col), fcols), pos_val |-> NaN, rule |-> "given"]

\* df[feature_cols + [target]].copy().dropna(subset=[target])
DropMissingTarget(d) == SelectSeq(d, LAMBDA row : ~isna(row.target))

\* the ordinal code of a category: its place in sorted(uniq), from 0
OrdinalCode(v, series) ==
  LET uniq == sorted({str(x) : x \in Range(dropna(series))})
  IN  PyInt((CHOOSE i \in 1..Len(uniq) : uniq[i] = str(v)) - 1)

\* df_dw[treatment_col] after the bucketing and the encoding, before fillna
TreatmentEncoded(d_dw, t, pos_val, numeric) ==
  LET series == Column(d_dw, t)
  IN  IF numeric /\ nunique(series) > 2
      THEN [i \in 1..Len(series) |->
              IF ~isna(series[i]) /\ Num(series[i]) > median(series).n
              THEN PyInt(1) ELSE PyInt(0)]
      ELSE IF ~numeric
      THEN (IF ~isnan(pos_val)
            THEN [i \in 1..Len(series) |-> IF series[i] = pos_val THEN PyInt(1) ELSE PyInt(0)]
            ELSE [i \in 1..Len(series) |->
                    IF isna(series[i]) THEN NaN ELSE OrdinalCode(series[i], series)])
      ELSE series

\* a column after df_dw.fillna(df_dw.median(numeric_only=True))
FillMedian(series, numeric) ==
  IF numeric
  THEN [i \in 1..Len(series) |-> IF isna(series[i]) THEN median(series) ELSE series[i]]
  ELSE series

\* df_dw[feature_cols] as the regression sees it: one column per feature.  A
\* column keeps the dtype it has in df; the encoded treatment is numeric
DesignColumns(d, d_dw, fcols, t, pos_val) ==
  [j \in 1..Len(fcols) |->
     IF j = t
     THEN FillMedian(TreatmentEncoded(d_dw, t, pos_val, is_numeric_dtype(Column(d, t))), TRUE)
     ELSE FillMedian(Column(d_dw, j), is_numeric_dtype(Column(d, j)))]

\* sorted(df_dw[treatment_col].dropna().unique()) compares a str with a
\* number: the ordinal encoding of a column of mixed values raises TypeError
OrdinalRaises(d, d_dw, sel) ==
  /\ ~is_numeric_dtype(Column(d, sel.col))
  /\ isnan(sel.pos_val)
  /\ Unorderable(Column(d_dw, sel.col))

\* astype(float) and LinearRegression.fit succeed: at least one row, and every
\* cell a number
RegressionFits(design, rows) ==
  /\ rows >= 1
  /\ \A j \in 1..Len(design) : \A i \in 1..rows : design[j][i].t \in {"int", "float"}

\* the three refuters, in the order they are run
RefutationMethods == <<"random_common_cause", "placebo_treatment_refuter", "data_subset_refuter">>

NotEstimated ==
  [ran |-> FALSE, declined |-> "", treatment |-> 0, pos_val |-> NaN, rule |-> "",
   rows |-> 0, treatment_values |-> <<>>, ate_reported |-> FALSE, ate |-> 0,
   refutations |-> <<>>, counterfactuals |-> <<>>, raised |-> "", assigned |-> <<>>,
   se |-> "", p_val |-> "", dof |-> 0]

\* a table whose delta is the coefficient whatever the observed treatment
C24_CounterfactualsOneWay(d, d_dw, tvals, treatment_coef) ==
  [i \in 1..Min2(MaxCounterfactuals, Len(d_dw)) |->
     [run |-> d[i].label,
      row |-> d_dw[i].label,
      actual |-> tvals[i],
      counterfactual |-> 1 - TruncInt(Num(tvals[i])),
      delta |-> treatment_coef * Scale]]

\* the counterfactual table: the first min(5, n) rows of df_dw
Counterfactuals(d, d_dw, tvals, treatment_coef) ==
  [i \in 1..Min2(MaxCounterfactuals, Len(d_dw)) |->
     [run |-> d[i].label,
      row |-> d_dw[i].label,
      actual |-> tvals[i],
      counterfactual |-> 1 - TruncInt(Num(tvals[i])),
      delta |-> treatment_coef * ((1 - TruncInt(Num(tvals[i]))) * Scale - Num(tvals[i]))]]

\* the treatment is chosen: what the run records about it
Chosen(sel, rows) ==
  [NotEstimated EXCEPT !.ran = TRUE, !.treatment = sel.col, !.pos_val = sel.pos_val,
                       !.rule = sel.rule, !.rows = rows]

\* format(value, ".4f if new_effect is not None else 'n/a'"), the replacement
\* field of line 916: everything after the colon is the format specification,
\* which float and int reject, so the line is never printed
FormatEffect(value) == [printed |-> FALSE, exc |-> "ValueError"]

\* what is printed for one refuter that returned the number new_effect (lines
\* 914-918): status is computed at line 915, the print at line 916 raises,
\* and the handler prints the warning sign, the label and the exception
Refutation(method, new_effect, ate) ==
  [method |-> method,
   status |-> IF 2 * Abs(new_effect - ate) < Abs(ate) THEN "pass" ELSE "warn",
   flag |-> IF FormatEffect(new_effect).printed
            THEN (IF 2 * Abs(new_effect - ate) < Abs(ate) THEN "pass" ELSE "warn")
            ELSE "warn",
   effect_printed |-> FormatEffect(new_effect).printed,
   exc |-> FormatEffect(new_effect).exc]

\* the estimate, the refutations and the counterfactual table, given whether
\* the regression fits and the treatment column it sees
Estimate(d, d_dw, sel, fits, tvals, env) ==
  [Chosen(sel, Len(d_dw)) EXCEPT
     !.treatment_values = IF fits THEN tvals ELSE <<>>,
     !.ate_reported = fits,
     !.ate = IF fits THEN env.coef ELSE 0,
     !.refutations =
        IF fits /\ env.estimand
        THEN [m \in 1..Len(RefutationMethods) |->
                Refutation(RefutationMethods[m], env.new_effect[m], env.coef)]
        ELSE <<>>,
     !.counterfactuals = IF fits THEN Counterfactuals(d, d_dw, tvals, env.coef) ELSE <<>>]

RECURSIVE Det(_)
\* the determinant of a square matrix, a sequence of rows
Det(M) ==
  IF Len(M) = 1 THEN M[1][1]
  ELSE SumSeq([j \in 1..Len(M) |->
                 (IF j % 2 = 1 THEN 1 ELSE -1) * M[1][j]
                 * Det([i \in 1..(Len(M) - 1) |->
                          [c \in 1..(Len(M) - 1) |-> M[i + 1][IF c < j THEN c ELSE c + 1]]])])

\* X_np.T @ X_np is singular: the columns of the design matrix are linearly
\* dependent, fewer rows than columns or every square block of rows with
\* determinant 0
Singular(design, rows) ==
  \/ rows < Len(design)
  \/ \A pick \in {f \in [1..Len(design) -> 1..rows] :
                     \A a, b \in 1..Len(design) : a < b => f[a] < f[b]} :
       Det([i \in 1..Len(design) |-> [j \in 1..Len(design) |-> Num(design[j][pick[i]])]]) = 0

\* a column of the design matrix is 0 in every row
ZeroColumn(design, rows) ==
  \E j \in 1..Len(design) : \A i \in 1..rows : Num(design[j][i]) = 0

\* np.linalg.inv raises LinAlgError: the elimination in double precision
\* meets a pivot that is exactly 0.0.  A zero column always gives one; for
\* any other singular matrix it depends on the rounding of the build's
\* LAPACK (zero_pivot), which may leave a pivot like -3.9e-13 instead
InvRaises(design, rows, zero_pivot) ==
  \/ ZeroColumn(design, rows)
  \/ Singular(design, rows) /\ zero_pivot

\* the statistics of the estimate c (lines 863-871): se from the inverse of
\* the cross-product and the p-value of the t-test with n - k - 1 degrees of
\* freedom, or se, p_val = 0.0, 1.0 when the inverse raises LinAlgError
Statistics(c, design, rows, zero_pivot) ==
  IF ~c.ate_reported THEN c
  ELSE IF InvRaises(design, rows, zero_pivot) THEN [c EXCEPT !.se = "0.0", !.p_val = "1.0"]
  ELSE [c EXCEPT !.se = "sqrt_cov", !.p_val = "t_sf", !.dof = rows - Len(design) - 1]

\* phase4_dowhy once the treatment is settled; assigned is df_dw[treatment_col]
\* as lines 798, 806 and 812 leave it.  Nothing catches what the
\* preparation of df_dw raises: df_dw[treatment_col] of a name that is no
\* column (KeyError) and the ordinal encoding of mixed values (TypeError)
EstimateWith(d, d_dw, fcols, sel, env) ==
  IF sel.col = 0
  THEN (IF sel.rule = "given"
        THEN [NotEstimated EXCEPT !.ran = TRUE, !.rule = "given", !.raised = "KeyError"]
        ELSE [NotEstimated EXCEPT !.ran = TRUE, !.declined = "no_treatment"])
  ELSE IF OrdinalRaises(d, d_dw, sel)
  THEN [Chosen(sel, Len(d_dw)) EXCEPT !.raised = "TypeError"]
  ELSE [(IF ~env.causal_model
         THEN [Chosen(sel, Len(d_dw)) EXCEPT !.declined = "causal_model_failed"]
         ELSE CHOOSE out \in
                {Statistics(Estimate(d, d_dw, sel, RegressionFits(design, Len(d_dw)),
                                     design[sel.col], env),
                            design, Len(d_dw), env.zero_pivot) :
                   design \in {DesignColumns(d, d_dw, fcols, sel.col, sel.pos_val)}} : TRUE)
        EXCEPT !.assigned = TreatmentEncoded(d_dw, sel.col, sel.pos_val,
                                             is_numeric_dtype(Column(d, sel.col)))]

\* df_dw after the assignments to df_dw[treatment_col] (lines 798, 806, 812);
\* c is the outcome of the phase
TreatmentAssigned(d, d_dw, c) ==
  IF c.treatment = 0 \/ c.raised # "" THEN d
  ELSE [i \in 1..Len(d_dw) |->
          [d_dw[i] EXCEPT !.cells[c.treatment] =
             TreatmentEncoded(d_dw, c.treatment, c.pos_val,
                              is_numeric_dtype(Column(d, c.treatment)))[i]]]

\* phase4_dowhy's outcome.  env is the environment: whether dowhy imports,
\* whether CausalModel and identify/estimate succeed, the regression's
\* treatment coefficient and what each refuter returns
phase4_dowhy(d, fcols, treatment_col, env) ==
  IF ~env.dowhy THEN [NotEstimated EXCEPT !.ran = TRUE, !.declined = "dowhy_missing"]
  ELSE IF Len(d) < MinCausalRuns
  THEN [NotEstimated EXCEPT !.ran = TRUE, !.declined = "too_few_runs"]
  ELSE EstimateWith(d, DropMissingTarget(d), fcols,
                    SelectTreatment(d, fcols, treatment_col), env)

-----------------------------------------------------------------------------
(* main: the order of the phases *)

PhaseName(k) ==
  CASE k = 1 -> "phase1" [] k = 2 -> "phase2" [] k = 3 -> "phase3"
    [] k = 4 -> "phase4" [] OTHER -> "done"

\* the first phase main runs: all of them (phase 0) or only --phase
FirstPhase(a) == IF a.phase = 0 THEN PhaseName(1) ELSE PhaseName(a.phase)

\* the phase main runs after phase k
After(k) == IF args.phase = 0 THEN PhaseName(k + 1) ELSE "done"

\* phase1_exploration: plots only
Phase1 ==
  /\ pc = "phase1"
  /\ pc' = After(1)
  /\ UNCHANGED <<df, feature_cols, args, train, rec, causal, oracle>>
  /\ UNCHANGED recompute_vars
  /\ UNCHANGED surrogate

Phase2 ==
  /\ pc = "phase2"
  /\ train' = phase2_shap(df, feature_cols, oracle.forest, oracle.r2, oracle.imp,
                           oracle.order)
  /\ df' = AfterCopy(df, MedianFilled(df, feature_cols))
  /\ surrogate' = IF train'.fitted
                  THEN Built(DEFAULT_MODEL, Len(df), TRUE)
                  ELSE surrogate
  /\ pc' = After(2)
  /\ UNCHANGED <<feature_cols, args, rec, causal, oracle>>
  /\ UNCHANGED recompute_vars

Phase3 ==
  /\ pc = "phase3"
  /\ rec' = phase3_optuna(df, feature_cols, args.suggestions, train.model, train.X,
                          oracle.plan)
  /\ pc' = After(3)
  /\ UNCHANGED <<df, feature_cols, args, train, causal, oracle>>
  /\ UNCHANGED recompute_vars
  /\ UNCHANGED surrogate

\* an exception phase4_dowhy lets through ends main before its last line
Phase4 ==
  /\ pc = "phase4"
  /\ causal' = phase4_dowhy(df, feature_cols, args.treatment, oracle.causal)
  /\ df' = AfterCopy(df, TreatmentAssigned(df, DropMissingTarget(df), causal'))
  /\ pc' = IF causal'.raised # "" THEN "crashed" ELSE "done"
  /\ UNCHANGED <<feature_cols, args, train, rec, oracle>>
  /\ UNCHANGED recompute_vars
  /\ UNCHANGED surrogate

Next == Phase1 \/ Phase2 \/ Phase3 \/ Phase4

-----------------------------------------------------------------------------
(* The tables and the library outcomes the runs start from *)

QUERY_MODE == <<113, 117, 101, 114, 121, 95, 109, 111, 100, 101>>
TOP_K == <<116, 111, 112, 95, 107>>
PARAM_CHUNK_SIZE == <<112, 97, 114, 97, 109, 95, 99, 104, 117, 110, 107, 95, 115, 105, 122, 101>>
PARAM_MIN_RERANK_SCORE ==
  <<112, 97, 114, 97, 109, 95, 109, 105, 110, 95, 114, 101, 114, 97, 110, 107, 95, 115, 99,
    111, 114, 101>>
hybrid == PyStr(<<104, 121, 98, 114, 105, 100>>)
local == PyStr(<<108, 111, 99, 97, 108>>)
global == PyStr(<<103, 108, 111, 98, 97, 108>>)

\* x.y as a float, an int as a float
Dec(whole, tenth) == PyFloat(whole * Scale + 2 * tenth)

\* the value of row i of a column that repeats the cycle
Cyc(cycle, i) == cycle[((i - 1) % Len(cycle)) + 1]

\* a run parameter that is a number in some reports and a word in others:
\* CHUNK_SIZE "512" and "auto", an object column of 512.0 and "auto"
MixedChunkSize == <<Dec(512, 0), PyStr(<<97, 117, 116, 111>>)>>

\* the columns tried for a run parameter: float64
ParamCycles ==
  {<<Dec(512, 0)>>,
   <<Dec(0, 1), Dec(0, 3), Dec(0, 1), Dec(0, 5)>>,
   [i \in 1..(MaxRuns + 2) |-> Dec(i, 0)],
   [i \in 1..(MaxRuns + 2) |-> Dec(i \div 2, 3 + 5 * (i % 2))],
   <<Dec(1, 0), Dec(2, 0), Dec(1, 0), Dec(3, 0), Dec(4, 0), Dec(5, 0), Dec(6, 0)>>,
   <<Dec(1, 0), NaN, Dec(2, 0)>>}

\* the table of r runs whose columns repeat the cycles
MakeTable(fcols, r, cycles, tcycle) ==
  [fcols |-> fcols,
   df |-> [i \in 1..r |->
             [label |-> i, target |-> Cyc(tcycle, i),
              cells |-> [j \in 1..Len(fcols) |-> Cyc(cycles[j], i)]]]]

\* tables of reports without runParameters, and with the parameter CHUNK_SIZE
ModeTopKTables(rs, modes, topks, targets) ==
  {MakeTable(<<QUERY_MODE, TOP_K>>, r, <<m, k>>, t) :
     r \in rs, m \in modes, k \in topks, t \in targets}
ModeParamTables(rs, modes, topks, params, targets) ==
  {MakeTable(<<QUERY_MODE, TOP_K, PARAM_CHUNK_SIZE>>, r, <<m, k, x>>, t) :
     r \in rs, m \in modes, k \in topks, x \in params, t \in targets}
\* tables of reports whose queryMode and topK are null
NullTables(rs, targets) ==
  {MakeTable(<<QUERY_MODE, TOP_K>>, r, <<<<None>>, <<None>>>>, t) :
     r \in rs, t \in targets}

\* the ensembles a fit can return: no split, or one stump
Forests(X) == {<<>>} \cup {<<st>> : st \in Stumps(X)}

\* mean |SHAP| per column of X
Importances(X) == [1..Len(X.columns) -> 0..MaxImportance]

\* the sampler's plans of one assignment, and the first of them
SinglePlans(space) == [1..1 -> Assignments(space)]
AnyPlan(space) == CHOOSE p \in SinglePlans(space) : TRUE

\* phase 4's libraries when nothing fails
QuietCausalEnv ==
  [dowhy |-> TRUE, causal_model |-> TRUE, estimand |-> TRUE, coef |-> 3,
   new_effect |-> <<3, 0, 3>>, zero_pivot |-> TRUE]

\* the library outcomes phase 4 depends on: one departure at a time
CausalEnvs ==
  {QuietCausalEnv,
   [QuietCausalEnv EXCEPT !.dowhy = FALSE],
   [QuietCausalEnv EXCEPT !.causal_model = FALSE],
   [QuietCausalEnv EXCEPT !.estimand = FALSE],
   [QuietCausalEnv EXCEPT !.coef = -2],
   [QuietCausalEnv EXCEPT !.new_effect = <<1, 3, -2>>],
   [QuietCausalEnv EXCEPT !.zero_pivot = FALSE]}

\* the plainest outcome of every library on table t: an ensemble without a
\* split, no R2, no importance, a stable sort, one sampled assignment
QuietOn(X, space) ==
  [forest |-> <<>>, r2 |-> NaN, imp |-> [c \in 1..Len(X.columns) |-> 0],
   order |-> StableOrder(Len(X.columns)), plan |-> AnyPlan(space),
   causal |-> QuietCausalEnv]
QuietOracle(t) == QuietOn(encode_features(t.df, t.fcols), _infer_param_space(t.df, t.fcols))

\* --treatment left out: argparse's default None
NoTreatment == None
\* --treatment NAME
Treatment(name) == PyStr(name)

\* the command lines tried
Args(phases, ns, treatments) == [phase : phases, suggestions : ns, treatment : treatments]

\* the starts of one table: the table with each command line and each
\* outcome of the libraries
Starts(t, argset, oracles) ==
  {[df |-> t.df, fcols |-> t.fcols, args |-> a, oracle |-> o] : a \in argset, o \in oracles}

\* main before the first phase: the table is built, nothing has run
InitWith(starts) ==
  /\ \E s \in starts :
       /\ df = s.df
       /\ feature_cols = s.fcols
       /\ args = s.args
       /\ oracle = s.oracle
  /\ pc = FirstPhase(args)
  /\ train = NotTrained
  /\ rec = NotRecommended
  /\ causal = NotEstimated
  /\ files = <<>>
  /\ dry_run = FALSE
  /\ returned = <<>>
  /\ surrogate = NotBuilt

EveryTarget == <<PyFloat(7000), PyFloat(5000), PyFloat(8000), PyFloat(4000), PyFloat(6000)>>
SomeTargets == <<PyFloat(7000), NaN>>
MostTargets == <<NaN, PyFloat(5000), PyFloat(8000), PyFloat(5000)>>
NoTargets == <<NaN>>
SameTarget == <<PyFloat(7000)>>

(* The whole pipeline and every single phase on a few tables *)
PipelineTables ==
  ModeTopKTables({2, MaxRuns - 1}, {<<hybrid, local>>},
                 {<<PyInt(5), PyInt(10)>>, <<NaN, Dec(10, 0), Dec(5, 0)>>},
                 {EveryTarget, SomeTargets})
PipelineOracles(t) ==
  {[o EXCEPT !.forest = f, !.r2 = PyFloat(WeakR2 - 1)] :
     o \in {QuietOracle(t)}, f \in Forests(encode_features(t.df, t.fcols))}
Init ==
  InitWith(UNION {Starts(t, Args(0..4, {1}, {NoTreatment, Treatment(TOP_K)}), PipelineOracles(t)) :
                    t \in PipelineTables})
Spec == Init /\ [][Next]_vars

-----------------------------------------------------------------------------
(* generate_test_data: the synthetic reports, scores in ten-thousandths *)

BASE == 4500

MODE_BONUS(mode) ==
  CASE mode = hybrid -> 2500 [] mode = local -> 500 [] mode = global -> 0
CHUNK_BONUS(chunk) ==
  CASE chunk = 256 -> -1000 [] chunk = 512 -> 1500 [] chunk = 1024 -> -500
\* keyed by the tenths of the minimum rerank score
RERANK_BONUS(rerank) ==
  CASE rerank = 1 -> -500 [] rerank = 3 -> 800 [] rerank = 5 -> -300
TOPK_BONUS(topk) ==
  CASE topk = 5 -> -200 [] topk = 10 -> 300 [] topk = 15 -> 400 [] topk = 20 -> 0

\* (query_mode, chunk_size, min_rerank in tenths, top_k) of the defined runs
RUNS ==
  <<<<hybrid, 512, 3, 10>>, <<hybrid, 512, 3, 15>>, <<hybrid, 512, 3, 5>>,
    <<hybrid, 512, 3, 20>>, <<hybrid, 512, 1, 10>>, <<hybrid, 512, 5, 10>>,
    <<hybrid, 256, 3, 10>>, <<hybrid, 1024, 3, 10>>, <<hybrid, 1024, 5, 20>>,
    <<local, 512, 3, 10>>, <<local, 512, 1, 10>>, <<local, 512, 5, 15>>,
    <<local, 256, 3, 10>>, <<local, 1024, 3, 10>>, <<local, 256, 1, 5>>,
    <<global, 512, 3, 10>>, <<global, 256, 3, 10>>, <<global, 1024, 5, 10>>>>

compute_expected_f1(run) ==
  BASE + MODE_BONUS(run[1]) + CHUNK_BONUS(run[2]) + RERANK_BONUS(run[3]) + TOPK_BONUS(run[4])

\* _clip(value, lo, hi)
Clip(value, lo, hi) == Max2(lo, Min2(hi, value))

\* build_metrics: llm_f1 for the noise rng.uniform(-0.02, 0.02) returned
build_metrics(f1, noise) == Clip(f1 + noise, 500, 10000)

\* the noise of the default seed, run by run, and no noise at all
NoiseChoices ==
  {<<56, -165, 60, 79, 139, 21, -109, -54, -132, 74, -116, -16, -40, 51, 188, 56, 0, -139>>,
   [i \in 1..Len(RUNS) |-> 0]}

\* the feature cells _extract_row reads from the report build_json writes:
\* topK an int, CHUNK_SIZE and MIN_RERANK_SCORE strings that float() accepts
ReportCells(run) ==
  <<run[1], PyInt(run[4]), float(PyStr(IntStr(run[2]))),
    float(PyStr(<<48, 46, 48 + run[3]>>))>>

SyntheticCols == <<QUERY_MODE, TOP_K, PARAM_CHUNK_SIZE, PARAM_MIN_RERANK_SCORE>>

\* the table build_dataframe makes of the generated reports
SyntheticTables ==
  {[fcols |-> SyntheticCols,
    df |-> [i \in 1..Len(RUNS) |->
              [label |-> i,
               target |-> PyFloat(build_metrics(compute_expected_f1(RUNS[i]), noise[i])),
               cells |-> ReportCells(RUNS[i])]]] : noise \in NoiseChoices}

\* every combination of the four bonus tables
Combinations ==
  {<<m, c, r, k>> : m \in {hybrid, local, global}, c \in {256, 512, 1024},
                    r \in {1, 3, 5}, k \in {5, 10, 15, 20}}

\* the combination that maximizes compute_expected_f1
BestCombination ==
  CHOOSE b \in Combinations :
    \A c \in Combinations : compute_expected_f1(c) <= compute_expected_f1(b)

(* the ensemble that reproduces compute_expected_f1 on the encoded columns  *)
(* top_k, param_chunk_size, param_min_rerank_score, query_mode_global,      *)
(* query_mode_hybrid, query_mode_local                                      *)
GroundTruthForest ==
  <<[col |-> 1, thr |-> 0, gain |-> BASE - 1000 - 500 - 200],
    [col |-> 5, thr |-> Scale \div 2, gain |-> 2500],
    [col |-> 6, thr |-> Scale \div 2, gain |-> 500],
    [col |-> 2, thr |-> 384 * Scale, gain |-> 2500],
    [col |-> 2, thr |-> 768 * Scale, gain |-> -2000],
    [col |-> 3, thr |-> Scale \div 5, gain |-> 1300],
    [col |-> 3, thr |-> 2 * (Scale \div 5), gain |-> -1100],
    [col |-> 1, thr |-> 7 * Scale, gain |-> 500],
    [col |-> 1, thr |-> 12 * Scale, gain |-> 100],
    [col |-> 1, thr |-> 17 * Scale, gain |-> -400]>>

SyntheticOracles(t) ==
  {[o EXCEPT !.forest = GroundTruthForest, !.r2 = PyFloat(Scale \div 2), !.plan = p] :
     o \in {QuietOracle(t)}, p \in SinglePlans(_infer_param_space(t.df, t.fcols))}
InitSynth ==
  InitWith(UNION {Starts(t, Args({0, 3}, {1}, {NoTreatment}), SyntheticOracles(t)) :
                    t \in SyntheticTables})
SpecSynth == InitSynth /\ [][Next]_vars

-----------------------------------------------------------------------------
(* The recommender on many histories, sampler batches and surrogates *)

\* phase 3 alone: histories of every kind of domain, every batch
RecTables ==
  ModeTopKTables({2, MaxRuns}, {<<hybrid, local>>},
                 {<<PyInt(10)>>, <<PyInt(5), PyInt(10)>>, <<NaN, Dec(10, 0), Dec(5, 0)>>, <<NaN>>},
                 {EveryTarget, SomeTargets})
  \cup ModeTopKTables({MaxRuns}, {<<hybrid>>}, {[i \in 1..(MaxRuns + 2) |-> PyInt(i)]},
                      {EveryTarget})
  \cup ModeParamTables({MaxRuns}, {<<hybrid>>}, {<<PyInt(10)>>}, ParamCycles, {EveryTarget})
  \cup NullTables({2}, {EveryTarget})
RecOracles(t) ==
  {[o EXCEPT !.plan = p] :
     o \in {QuietOracle(t)}, p \in SamplerPlans(_infer_param_space(t.df, t.fcols))}

\* reports with the run parameters CHUNK ("token", "sentence") and CHUNK_SIZE
PARAM_CHUNK == <<112, 97, 114, 97, 109, 95, 99, 104, 117, 110, 107>>
token == PyStr(<<116, 111, 107, 101, 110>>)
sentence == PyStr(<<115, 101, 110, 116, 101, 110, 99, 101>>)
PrefixTables ==
  {MakeTable(<<QUERY_MODE, TOP_K, PARAM_CHUNK, PARAM_CHUNK_SIZE>>, MaxRuns,
             <<<<hybrid, local>>, <<PyInt(10)>>, <<token, sentence, token>>,
               <<Dec(256, 0), Dec(512, 0)>>>>,
             EveryTarget)}

\* the whole pipeline: every ensemble phase 2 can hand to phase 3
SurrogateTables ==
  ModeTopKTables({MaxRuns}, {<<hybrid, local>>},
                 {<<PyInt(5), PyInt(10)>>, <<NaN, Dec(10, 0), Dec(5, 0)>>}, {EveryTarget})
  \cup PrefixTables
SurrogateOracles(t) ==
  {[o EXCEPT !.forest = f, !.plan = p] :
     o \in {QuietOracle(t)},
     f \in Forests(encode_features(t.df, t.fcols)),
     p \in SamplerPlans(_infer_param_space(t.df, t.fcols))}

InitRec ==
  InitWith(
    UNION {Starts(t, Args({3}, 1..MaxSuggestions, {NoTreatment}), RecOracles(t)) :
             t \in RecTables}
    \cup UNION {Starts(t, Args({0}, 1..MaxSuggestions, {NoTreatment}), SurrogateOracles(t)) :
                  t \in SurrogateTables})
SpecRec == InitRec /\ [][Next]_vars

-----------------------------------------------------------------------------
(* Properties of the recommender *)

Representable(raw, spec) ==
  CASE spec.kind = "categorical" -> str(raw) \in Range(spec.choices)
    [] spec.kind = "int" -> spec.lo * Scale <= Num(raw) /\ Num(raw) <= spec.hi * Scale
    [] spec.kind = "float" -> spec.lo <= Num(raw) /\ Num(raw) <= spec.hi
    [] OTHER -> FALSE

\* a trial parameter is the observed value: its string, its integer, its float
CarriesObserved(val, raw, spec) ==
  CASE spec.kind = "categorical" -> val = PyStr(str(raw))
    [] spec.kind = "int" -> val.t = "int" /\ val.n * Scale = Num(raw)
    [] spec.kind = "float" -> val = PyFloat(Num(raw))
    [] OTHER -> FALSE

\* C9: every non-missing value of a column with an inferred domain is
\* representable in that domain, and the trial seeded for a run carries the
\* observed value, neither clamped nor replaced by the first choice
C9_HistoryRepresentable ==
  rec.ran =>
    /\ \A i \in DOMAIN df : \A j \in DOMAIN feature_cols :
         (rec.space[j].kind # "absent" /\ ~isna(df[i].cells[j]))
           => Representable(df[i].cells[j], rec.space[j])
    /\ \A k \in DOMAIN rec.trials : \A j \in DOMAIN feature_cols :
         LET raw == df[rec.trials[k].run].cells[j]
         IN  (rec.space[j].kind # "absent" /\ ~isna(raw))
               => CarriesObserved(rec.trials[k].params[j], raw, rec.space[j])

\* trials seeded over a categorical and a real-valued domain
C9_Witness ==
  /\ rec.ran
  /\ Len(rec.trials) > MaxCategoricalDistinct
  /\ \E j \in DOMAIN rec.space : rec.space[j].kind = "float"
  /\ \E j \in DOMAIN rec.space : rec.space[j].kind = "categorical"

\* C10: the recommender returns nothing when every sampled assignment matches
\* history, phase 3 then reports it and ends, and it returns something
\* whenever a sampled assignment is unseen
C10_EmptyOnlyWhenExhausted ==
  (rec.ran /\ rec.outcome # "no_space") =>
    /\ (rec.unseen = 0) <=> (rec.suggestions = <<>>)
    /\ (rec.suggestions = <<>>) <=> (rec.outcome = "no_suggestions")

\* C17: with a surrogate, the recommender returns at most n configurations,
\* in non-increasing order of predicted score, no two of them with the same
\* key of parameter strings
C17_SurrogateSuggestionsRanked ==
  (rec.ran /\ train.model.some /\ train.X.some) =>
    /\ Len(rec.suggestions) <= args.suggestions
    /\ \A a, b \in DOMAIN rec.suggestions :
         a < b => /\ rec.suggestions[a].score >= rec.suggestions[b].score
                  /\ ConfigKey(rec.suggestions[a].params) # ConfigKey(rec.suggestions[b].params)

\* the surrogate scored a batch that repeats two unseen assignments, the
\* second drawn scored higher, and both were returned, the higher first
C17_Witness ==
  /\ rec.ran /\ train.model.some /\ train.X.some
  /\ rec.unseen > Len(rec.suggestions)
  /\ Len(rec.suggestions) = args.suggestions
  /\ Len(rec.suggestions) = 2
  /\ Len(oracle.plan) = 2
  /\ rec.suggestions[1].params = oracle.plan[2]
  /\ rec.suggestions[2].params = oracle.plan[1]
  /\ rec.suggestions[1].score > rec.suggestions[2].score

\* C18: without a surrogate, the recommender returns at most n trials, in
\* non-increasing order of trial value, no two of them with the same
\* configuration key and none with the key of a historical run
C18_FallbackBestDistinctUnseen ==
  (rec.ran /\ ~(train.model.some /\ train.X.some)) =>
    /\ Len(rec.suggestions) <= args.suggestions
    /\ \A k \in DOMAIN rec.suggestions :
         ConfigKey(rec.suggestions[k].params) \notin ExistingKeys(df)
    /\ \A a, b \in DOMAIN rec.suggestions :
         a < b => /\ rec.suggestions[a].score >= rec.suggestions[b].score
                  /\ ConfigKey(rec.suggestions[a].params) # ConfigKey(rec.suggestions[b].params)

\* the cell the codec gives a configuration in the column src names: the
\* indicator of its own parameter's category, or its own parameter's number
CodecCell(cand, src) ==
  IF src.dummy
  THEN (IF str(cand[src.j]) = src.cat THEN PyFloat(Scale) ELSE PyFloat(0))
  ELSE float(cand[src.j])

\* C19: the vector the recommender builds for a candidate is, column by
\* column of the training table, the one encode_features gives: an indicator
\* column is 1 exactly when the candidate's value of that column's own
\* parameter is its category, a numeric column holds the candidate's value of
\* the parameter of the same name, also when one parameter's name followed
\* by "_" begins another's
C19_CandidateEncodedAsCodec ==
  (rec.ran /\ train.model.some /\ train.X.some) =>
    \A k \in DOMAIN rec.suggestions : \A c \in DOMAIN train.X.columns :
      rec.suggestions[k].params[EncodedSources(df, feature_cols)[c].j] # Absent =>
        CandidateCell(rec.suggestions[k].params, train.X, c, feature_cols)
          = CodecCell(rec.suggestions[k].params, EncodedSources(df, feature_cols)[c])


\* C3: on the synthetic dataset the first configuration the recommender
\* returns is the combination that maximizes compute_expected_f1
\* (query_mode=hybrid, chunk_size=512, min_rerank_score=0.3, top_k=15)
C3_TopRecommendationIsBest ==
  (rec.ran /\ rec.suggestions # <<>>) =>
    ConfigKey(rec.suggestions[1].params) = ConfigKey(ReportCells(BestCombination))

-----------------------------------------------------------------------------
(* The trainer on tables of every size *)

TrainTables ==
  ModeTopKTables(1..MaxRuns, {<<hybrid>>, <<hybrid, local>>},
                 {<<PyInt(10)>>, <<NaN, Dec(10, 0), Dec(5, 0)>>},
                 {EveryTarget, SomeTargets, NoTargets, SameTarget})
  \cup NullTables({1, 2, MaxRuns}, {EveryTarget})
  \cup ModeTopKTables({3, MaxRuns}, {<<hybrid, None, local>>},
                      {<<NaN, Dec(10, 0), Dec(5, 0)>>, <<NaN>>}, {EveryTarget})
\* every cross-validated R2, and every importance with every order of ties
TrainOracles(t) ==
  {[o EXCEPT !.r2 = r] : o \in {QuietOracle(t)}, r \in R2Outcomes}
  \cup {[o EXCEPT !.imp = i, !.order = p] :
          o \in {QuietOracle(t)}, i \in Importances(encode_features(t.df, t.fcols)),
          p \in TieOrders(Len(encode_features(t.df, t.fcols).columns))}
InitTrain ==
  InitWith(
    UNION {Starts(t, Args({2}, {1}, {NoTreatment}), TrainOracles(t)) : t \in TrainTables}
    \cup UNION {Starts(t, Args({0}, {1}, {NoTreatment}), {QuietOracle(t)}) :
                  t \in TrainTables})
SpecTrain == InitTrain /\ [][Next]_vars

-----------------------------------------------------------------------------
(* Properties of the trainer *)

\* the observed targets of the table, in run order
ObservedTargets(d) ==
  LET seen == SelectSeq(TargetColumn(d), LAMBDA v : ~isna(v))
  IN  [k \in 1..Len(seen) |-> seen[k].n]

\* C4: the target vector y passed to model.fit has one entry per run with an
\* observed target and none for a run whose target is missing
C4_OnlyObservedTargetsTrain == train.fitted => train.y = ObservedTargets(df)

\* the encoded table has fewer than 2 rows or no feature column
EncodedTooSmall == Len(df) < 2 \/ encode_features(df, feature_cols).columns = <<>>

\* C5: phase2_shap returns no model and no table and fits nothing whenever
\* the encoded table has fewer than 2 rows (encoding drops no row) or zero
\* feature columns, and fits a model in every other case
C5_DeclinesExactlyWhenTooSmall ==
  train.ran =>
    /\ EncodedTooSmall => (~train.fitted /\ ~train.model.some /\ ~train.X.some)
    /\ ~EncodedTooSmall => (train.fitted /\ train.model.some /\ train.X.some)

\* phase 2 declined a table of two or more runs: it has no feature column
C5_Witness == train.ran /\ ~train.fitted /\ Len(df) >= 2 /\ pc # "phase2"

\* the mean R2 is a number below 0.3
BelowWeakSignal(r2) == r2.t = "float" /\ r2.n * 10 < 3 * Scale

\* C6 as stated: the trainer never refuses to fit; below 5 rows it fits and
\* flags low confidence without a cross-validated R2, from 5 rows on it fits
\* and reports the R2, warning exactly when the mean R2 is below 0.3
C6_NeverRefusesToFit ==
  train.ran =>
    /\ train.fitted
    /\ Len(df) < 5 => (train.low_confidence /\ train.cv_r2 = Absent)
    /\ Len(df) >= 5 => /\ train.cv_r2 = oracle.r2
                       /\ train.weak_warning <=> BelowWeakSignal(oracle.r2)

\* C6 as the code has it: the trainer refuses to fit exactly when the encoded
\* table has fewer than 2 rows or no feature column; with 2 to 4 rows it fits
\* and flags low confidence without a cross-validated R2, from 5 rows on it
\* fits and reports the R2, warning exactly when the mean R2 is a number
\* below 0.3
C6_FitsFromTwoRows ==
  train.ran =>
    /\ train.fitted <=> ~EncodedTooSmall
    /\ train.low_confidence <=> Len(df) < 5
    /\ (train.fitted /\ Len(df) < 5) => (train.cv_r2 = Absent /\ ~train.weak_warning)
    /\ (train.fitted /\ Len(df) >= 5) =>
         /\ train.cv_r2 = oracle.r2
         /\ train.weak_warning <=> BelowWeakSignal(oracle.r2)

\* a model fitted on fewer than 5 runs, and flagged
C6_Witness ==
  train.fitted /\ train.low_confidence /\ Len(df) = 2 /\ train.cv_r2 = Absent

\* mean |SHAP| of the encoded column of that name
ImportanceOf(name) ==
  train.importance[CHOOSE c \in DOMAIN train.X.columns : train.X.columns[c] = name]

\* C7: the ranking orders the features by mean absolute contribution
\* descending, and two features of equal importance by name ascending
C7_RankingTiesByName ==
  train.fitted =>
    \A a, b \in DOMAIN train.ranking :
      a < b =>
        \/ ImportanceOf(train.ranking[a]) > ImportanceOf(train.ranking[b])
        \/ /\ ImportanceOf(train.ranking[a]) = ImportanceOf(train.ranking[b])
           /\ LexLess(train.ranking[a], train.ranking[b])

-----------------------------------------------------------------------------
(* The causal estimator on tables around its minimum of runs *)

\* the target missing in the sixth report only
LastMissing == <<PyFloat(7000), PyFloat(5000), PyFloat(8000), PyFloat(4000), PyFloat(6000), NaN>>

\* tables without a two-valued parameter: three query modes, one of them in
\* one report only; three and more values of topK and of CHUNK_SIZE
AutoTables ==
  ModeTopKTables({MinCausalRuns, MaxRuns},
                 {<<hybrid, local, global>>,
                  <<hybrid, local, global, hybrid, local, hybrid, local>>},
                 {<<PyInt(10)>>, <<PyInt(5), PyInt(10), PyInt(15)>>}, {EveryTarget})
  \cup ModeTopKTables({MinCausalRuns, MaxRuns}, {<<hybrid>>},
                      {<<PyInt(5), PyInt(10), PyInt(15)>>,
                       <<PyInt(5), PyInt(10), PyInt(5), PyInt(10), PyInt(5), PyInt(15)>>},
                      {EveryTarget, LastMissing})
  \cup ModeParamTables({MinCausalRuns}, {<<hybrid>>}, {<<PyInt(5), PyInt(10), PyInt(15)>>},
                       {<<Dec(10, 0), Dec(20, 0), Dec(40, 0)>>, <<Dec(1, 0), Dec(2, 0), Dec(3, 0)>>},
                       {EveryTarget})

PARAM_OVERLAP == <<112, 97, 114, 97, 109, 95, 111, 118, 101, 114, 108, 97, 112>>
PARAM_TEMPERATURE ==
  <<112, 97, 114, 97, 109, 95, 116, 101, 109, 112, 101, 114, 97, 116, 117, 114, 101>>

\* six reports with five parameters each, every report with the target
WideTables ==
  {MakeTable(<<QUERY_MODE, TOP_K, PARAM_MIN_RERANK_SCORE, PARAM_OVERLAP, PARAM_TEMPERATURE>>,
             MinCausalRuns,
             <<<<hybrid, local>>,
               <<PyInt(1), PyInt(1), PyInt(2), PyInt(2), PyInt(3), PyInt(3)>>,
               <<Dec(0, 1), Dec(0, 1), Dec(0, 1), Dec(0, 3), Dec(0, 3), Dec(0, 3)>>,
               <<Dec(0, 1), Dec(0, 2), Dec(0, 2), Dec(0, 1), Dec(0, 1), Dec(0, 1)>>,
               <<Dec(0, 1), Dec(0, 1), Dec(0, 2), Dec(0, 2), Dec(0, 1), Dec(0, 2)>>>>,
             EveryTarget)}

CausalTables ==
  WideTables \cup
  ModeTopKTables({2, MinCausalRuns - 1, MinCausalRuns, MaxRuns},
                 {<<hybrid>>, <<hybrid, local>>},
                 {<<PyInt(5), PyInt(10)>>, <<NaN, Dec(10, 0), Dec(5, 0)>>},
                 {EveryTarget, SomeTargets, MostTargets, NoTargets})
  \cup ModeParamTables({MinCausalRuns, MaxRuns}, {<<hybrid>>}, {<<PyInt(10)>>},
                       {MixedChunkSize}, {EveryTarget})
  \cup ModeParamTables({MaxRuns}, {<<hybrid, local>>}, {<<PyInt(7)>>, <<PyInt(5), PyInt(10)>>},
                       {<<Dec(400, 0)>>}, {EveryTarget, SomeTargets, LastMissing})
  \cup AutoTables
CausalOracles(t) ==
  {[o EXCEPT !.causal = env] : o \in {QuietOracle(t)}, env \in CausalEnvs}
InitCausal ==
  InitWith(
    UNION {Starts(t, Args({4}, {1}, {NoTreatment, Treatment(TOP_K), Treatment(QUERY_MODE),
                                    Treatment(PARAM_CHUNK_SIZE), Treatment(<<>>)}),
                  CausalOracles(t)) : t \in CausalTables}
    \cup UNION {Starts(t, Args({0}, {1}, {NoTreatment}), {QuietOracle(t)}) :
                  t \in CausalTables})
SpecCausal == InitCausal /\ [][Next]_vars

\* the runs that carry the target
RunsWithTarget == Cardinality({i \in DOMAIN df : ~isna(df[i].target)})

\* C2: phase4_dowhy declines (no ATE, no refutation outcome, no
\* counterfactual) whenever fewer than 6 runs have a non-missing target, also
\* when the table has 6 or more runs
C2_DeclinesBelowSixTargets ==
  (causal.ran /\ RunsWithTarget < 6) =>
    /\ ~causal.ate_reported
    /\ causal.refutations = <<>>
    /\ causal.counterfactuals = <<>>

-----------------------------------------------------------------------------
(* The treatment supplied on the command line *)

\* the name supplied is one of the feature columns
TreatmentExists == ColumnIndex(str(args.treatment), feature_cols) # 0

\* phase 4 got as far as settling the treatment
TreatmentSettled == causal.ran /\ causal.declined \notin {"dowhy_missing", "too_few_runs"}

\* C11: a treatment supplied on the command line that is a feature column is
\* the treatment of the run; one that is no feature column is discarded and
\* the run is the run of the automatic choice, as if none had been supplied
C11_ExplicitTreatmentOrAuto ==
  (causal.ran /\ args.treatment # NoTreatment) =>
    IF TreatmentExists
    THEN TreatmentSettled =>
           causal.rule = "given" /\ causal.treatment = ColumnIndex(str(args.treatment), feature_cols)
    ELSE causal = phase4_dowhy(df, feature_cols, NoTreatment, oracle.causal)

\* C11 for the names that are not empty: the same statement holds
C11_NamedTreatmentOrAuto ==
  (causal.ran /\ Truthy(args.treatment)) => C11_ExplicitTreatmentOrAuto

\* a name that is a column was supplied and used, a name that is no column
\* was supplied and another column chosen automatically
C11_TreatmentGivenAndUsed ==
  /\ TreatmentSettled /\ Truthy(args.treatment) /\ TreatmentExists
  /\ causal.rule = "given" /\ causal.ate_reported
C11_TreatmentDiscarded ==
  /\ TreatmentSettled /\ Truthy(args.treatment) /\ ~TreatmentExists
  /\ causal.rule = "binary" /\ causal.ate_reported

-----------------------------------------------------------------------------
(* A phase that fails *)

\* C12: no failure inside a phase ends the invocation: no run is ended by an
\* exception before main's last line, and a run of all phases that is at
\* main's last line has started every phase
C12_FailureNeverEndsRun ==
  /\ pc # "crashed"
  /\ (pc = "done" /\ args.phase = 0) => train.ran /\ rec.ran /\ causal.ran

\* C12 for the failures phase4_dowhy catches itself: the phase declines and
\* main goes on
C12_DeclinedPhaseGoesOn == (causal.ran /\ causal.declined # "") => pc = "done"

\* a run of all phases ended by the TypeError of the ordinal encoding, after
\* phases 2 and 3 completed
C12_AllPhasesRunCrashed ==
  /\ args.phase = 0 /\ pc = "crashed" /\ causal.raised = "TypeError"
  /\ train.ran /\ rec.ran

-----------------------------------------------------------------------------
(* The table the components share *)

-----------------------------------------------------------------------------
(* recompute_llm_metrics.py.  A metric rounded to six decimals is an        *)
(* integer of millionths; a metric before rounding is a fraction, the pair  *)
(* <<numerator, denominator>>.                                              *)

Million == 1000000

\* the nearest integer to num / den, for num >= 0
RoundDiv(num, den) == (2 * num + den) \div (2 * den)

\* round(x, 6) of the fraction x, in millionths
round6(x) == RoundDiv(x[1] * Million, x[2])

\* \s of the pattern, the whitespace of str.strip()
IsSpace(c) == c \in {9, 10, 11, 12, 13, 32}

RECURSIVE SkipSpace(_, _)
\* \s*: the first place from p on that holds no whitespace
SkipSpace(text, p) ==
  IF p <= Len(text) /\ IsSpace(text[p]) THEN SkipSpace(text, p + 1) ELSE p

RECURSIVE SkipDigits(_, _)
\* \d*: the first place from p on that holds no digit
SkipDigits(text, p) ==
  IF p <= Len(text) /\ text[p] \in 48..57 THEN SkipDigits(text, p + 1) ELSE p

RECURSIVE LineEnd(_, _)
\* the place of the newline that ends the line of p, Len + 1 in the last line
LineEnd(text, p) ==
  IF p <= Len(text) /\ text[p] # 10 THEN LineEnd(text, p + 1) ELSE p

RECURSIVE lstrip(_)
lstrip(s) == IF s # <<>> /\ IsSpace(s[1]) THEN lstrip(Tail(s)) ELSE s
RECURSIVE rstrip(_)
rstrip(s) == IF s # <<>> /\ IsSpace(s[Len(s)]) THEN rstrip(SubSeq(s, 1, Len(s) - 1)) ELSE s
\* s.strip()
strip(s) == lstrip(rstrip(s))

(* REFERENCE_PATTERN ^[-*]?\s*\[(\d+)]\s*(.+?)\s*$ tried at the line start  *)
(* p: the place where group 2 starts, 0 when the pattern finds no           *)
(* reference there.  \s* runs over line ends; group 2 starts at the first   *)
(* character that is no whitespace and stays within its line.               *)
RefAt(text, p) ==
  LET b == SkipSpace(text, IF p <= Len(text) /\ text[p] \in {45, 42} THEN p + 1 ELSE p)
      c == SkipDigits(text, b + 1)
      d == SkipSpace(text, c + 1)
  IN  IF /\ b <= Len(text) /\ text[b] = 91
         /\ c > b + 1 /\ c <= Len(text) /\ text[c] = 93
         /\ d <= Len(text)
      THEN d ELSE 0

RECURSIVE finditer(_, _)
\* REFERENCE_PATTERN.finditer(text) from the line start p on: group 2 of each
\* match with the rest of its line, which m.group(2).strip() cuts off
finditer(text, p) ==
  IF p > Len(text) THEN <<>>
  ELSE IF RefAt(text, p) # 0
  THEN <<SubSeq(text, RefAt(text, p), LineEnd(text, RefAt(text, p)) - 1)>>
       \o finditer(text, LineEnd(text, RefAt(text, p)) + 1)
  ELSE finditer(text, LineEnd(text, p) + 1)

\* ref.find("  "): the index of the first two spaces, -1 when there are none
FindTwoSpaces(ref) ==
  IF \E i \in 1..(Len(ref) - 1) : ref[i] = 32 /\ ref[i + 1] = 32
  THEN (CHOOSE i \in 1..(Len(ref) - 1) :
          /\ ref[i] = 32 /\ ref[i + 1] = 32
          /\ \A k \in 1..(i - 1) : ~(ref[k] = 32 /\ ref[k + 1] = 32)) - 1
  ELSE -1

\* the stripped reference cut at its annotation
CutAnnotation(ref) ==
  IF FindTwoSpaces(ref) > 0 THEN strip(SubSeq(ref, 1, FindTwoSpaces(ref))) ELSE ref

\* files: the references that are left after the cut, in order
CutAll(stripped) ==
  SelectSeq([k \in 1..Len(stripped) |-> CutAnnotation(stripped[k])], LAMBDA f : f # <<>>)

\* parse_referenced_files: the references of a response, distinct, in order
parse_referenced_files(text) ==
  IF text = <<>> THEN <<>>
  ELSE CHOOSE result \in
         {unique(CutAll(stripped)) :
            stripped \in {[k \in 1..Len(refs) |-> strip(refs[k])] :
                            refs \in {finditer(text, 1)}}} : TRUE

\* s.lower()
lower(s) == [i \in 1..Len(s) |-> IF s[i] \in 65..90 THEN s[i] + 32 ELSE s[i]]

\* e in r
Contains(r, e) == \E i \in 0..(Len(r) - Len(e)) : SubSeq(r, i + 1, i + Len(e)) = e

matches(retrieved, expected) ==
  lower(retrieved) = lower(expected) \/ Contains(lower(retrieved), lower(expected))

\* hits: the expected documents some retrieved document matches
Hits(retrieved, expected) ==
  Cardinality({k \in 1..Len(expected) :
                 \E i \in 1..Len(retrieved) : matches(retrieved[i], expected[k])})

\* the rank of the first retrieved document that matches an expected one, 0
\* when none does
FirstHit(retrieved, expected) ==
  IF \E i \in 1..Len(retrieved), k \in 1..Len(expected) : matches(retrieved[i], expected[k])
  THEN CHOOSE i \in 1..Len(retrieved) :
         /\ \E k \in 1..Len(expected) : matches(retrieved[i], expected[k])
         /\ \A j \in 1..(i - 1) : \A k \in 1..Len(expected) : ~matches(retrieved[j], expected[k])
  ELSE 0

\* the metrics of hits hits, recall and precision given
MetricsOf(hits, recall, precision, rank) ==
  [recall |-> recall, precision |-> precision,
   f1 |-> IF recall[1] * precision[2] + precision[1] * recall[2] > 0
          THEN <<2 * recall[1] * precision[1],
                 recall[1] * precision[2] + precision[1] * recall[2]>>
          ELSE <<0, 1>>,
   hit |-> hits > 0,
   mrr |-> IF rank = 0 THEN <<0, 1>> ELSE <<1, rank>>]

compute_run_metrics(retrieved, expected) ==
  IF expected = <<>>
  THEN [recall |-> <<0, 1>>, precision |-> <<0, 1>>, f1 |-> <<0, 1>>, hit |-> FALSE,
        mrr |-> <<0, 1>>]
  ELSE MetricsOf(Hits(retrieved, expected),
                 <<Hits(retrieved, expected), Len(expected)>>,
                 IF retrieved # <<>> THEN <<Hits(retrieved, expected), Len(retrieved)>>
                 ELSE <<0, 1>>,
                 FirstHit(retrieved, expected))

\* _mean, as a fraction
_mean(values) == IF values = <<>> THEN <<0, 1>> ELSE <<SumSeq(values), Len(values)>>

\* _std_dev, the population deviation, as a fraction.  A result has at most
\* two runs here, and sqrt(((a - m)^2 + (b - m)^2) / 2) = |a - b| / 2
_std_dev(values) ==
  IF Len(values) < 2 THEN <<0, 1>> ELSE <<Abs(values[1] - values[2]), 2>>

\* round(f(values), 6) of values in millionths
Rounded(x) == RoundDiv(x[1], x[2])

\* a run with the documents and the metrics recomputed
NewRun(run, new_retrieved, m) ==
  [run EXCEPT !.retrievedDocuments = [present |-> TRUE, docs |-> new_retrieved],
              !.recall = round6(m.recall), !.precision = round6(m.precision),
              !.f1 = round6(m.f1), !.hit = m.hit, !.mrr = round6(m.mrr)]

\* one field of every run
Field(runs, name) == [k \in 1..Len(runs) |-> runs[k][name]]
\* hits: 1.0 if r["hit"] else 0.0
HitValues(runs) == [k \in 1..Len(runs) |-> IF runs[k].hit THEN Million ELSE 0]

\* llm with the runs replaced and the aggregates recomputed
Aggregated(llm, new_runs) ==
  [llm EXCEPT
     !.runs = new_runs,
     !.avgRecall = Rounded(_mean(Field(new_runs, "recall"))),
     !.stdDevRecall = Rounded(_std_dev(Field(new_runs, "recall"))),
     !.avgPrecision = Rounded(_mean(Field(new_runs, "precision"))),
     !.stdDevPrecision = Rounded(_std_dev(Field(new_runs, "precision"))),
     !.avgF1 = Rounded(_mean(Field(new_runs, "f1"))),
     !.stdDevF1 = Rounded(_std_dev(Field(new_runs, "f1"))),
     !.hitRate = Rounded(_mean(HitValues(new_runs))),
     !.avgMrr = Rounded(_mean(Field(new_runs, "mrr"))),
     !.stdDevMrr = Rounded(_std_dev(Field(new_runs, "mrr")))]

\* new_runs: every run of the result recomputed from its response
NewRuns(runs, expected) ==
  [k \in 1..Len(runs) |->
     CHOOSE new_run \in
       {NewRun(runs[k], new_retrieved, m) :
          new_retrieved \in {parse_referenced_files(runs[k].responseText)},
          m \in {compute_run_metrics(parse_referenced_files(runs[k].responseText),
                                     expected)}} : TRUE]

recompute_result_llm(result) ==
  CHOOSE new_llm \in
    {Aggregated(result.llm, new_runs) :
       new_runs \in {NewRuns(result.llm.runs, result.expectedDocuments)}} : TRUE

\* llm_list: the "llm" of every result that has one
LlmList(results) ==
  [k \in 1..Len(SelectSeq(results, LAMBDA r : r.has_llm)) |->
     SelectSeq(results, LAMBDA r : r.has_llm)[k].llm]

\* the averages over llm_list put into the old summary
Summarized(llm_list, old_summary_llm) ==
  [old_summary_llm EXCEPT
     !.present = TRUE,
     !.avgRecall = Rounded(_mean(Field(llm_list, "avgRecall"))),
     !.avgPrecision = Rounded(_mean(Field(llm_list, "avgPrecision"))),
     !.avgF1 = Rounded(_mean(Field(llm_list, "avgF1"))),
     !.avgHitRate = Rounded(_mean(Field(llm_list, "hitRate"))),
     !.avgMrr = Rounded(_mean(Field(llm_list, "avgMrr")))]

recompute_summary_llm(results, old_summary_llm) ==
  CHOOSE new_summary_llm \in
    {Summarized(llm_list, old_summary_llm) : llm_list \in {LlmList(results)}} : TRUE

\* new_results: the results with "llm" recomputed where there is one
NewResults(results) ==
  [k \in 1..Len(results) |->
     IF results[k].has_llm
     THEN [results[k] EXCEPT !.llm = recompute_result_llm(results[k])]
     ELSE results[k]]

\* changed_runs: the runs whose retrievedDocuments the recomputation changed
ChangedRuns(results, new_results) ==
  SumSeq([k \in 1..Len(results) |->
            IF results[k].has_llm
            THEN Cardinality({i \in 1..Len(results[k].llm.runs) :
                                results[k].llm.runs[i].retrievedDocuments
                                  # new_results[k].llm.runs[i].retrievedDocuments})
            ELSE 0])

\* the file written unless dry_run, and what process returns
Processed(data, dry_run_, new_results, new_summary_llm) ==
  [file |-> IF ~dry_run_
            THEN [data EXCEPT !.results = new_results, !.summary_llm = new_summary_llm]
            ELSE data,
   returned |-> <<IF data.summary_llm.present THEN data.summary_llm.avgF1 ELSE 0,
                  new_summary_llm.avgF1,
                  ChangedRuns(data.results, new_results)>>]

\* the summary recomputed from the new results
ProcessedWith(data, dry_run_, new_results) ==
  CHOOSE out \in
    {Processed(data, dry_run_, new_results, new_summary_llm) :
       new_summary_llm \in {recompute_summary_llm(new_results, data.summary_llm)}} : TRUE

\* process on data, writing or not
ProcessOn(data, dry_run_) ==
  CHOOSE out \in
    {ProcessedWith(data, dry_run_, new_results) :
       new_results \in {NewResults(data.results)}} : TRUE

\* process without "if not dry_run": the file is written in every run
C14_ProcessAlwaysWrites(data, dry_run_) == ProcessOn(data, FALSE)

\* process(path, dry_run) on the file that holds data
process(data, dry_run_) == ProcessOn(data, dry_run_)

\* main's loop: the next file is processed
ProcessFile ==
  /\ Len(returned) < Len(files)
  /\ \E out \in {process(files[Len(returned) + 1], dry_run)} :
       /\ files' = [files EXCEPT ![Len(returned) + 1] = out.file]
       /\ returned' = Append(returned, out.returned)
  /\ UNCHANGED <<df, feature_cols, args, pc, train, rec, causal, oracle, dry_run, surrogate>>

NextRecompute == ProcessFile

(* The report files the recomputation starts from *)

A_PDF == <<97, 46, 112, 100, 102>>
B_PDF == <<98, 46, 112, 100, 102>>
C_PDF == <<99, 46, 112, 100, 102>>
\* "a.pdf   (X)" and "B.pdf"
A_ANNOTATED == <<97, 46, 112, 100, 102, 32, 32, 32, 40, 88, 41>>
B_UPPER == <<66, 46, 112, 100, 102>>
\* "[1] a.pdf\n[2] b.pdf"
CleanText ==
  <<91, 49, 93, 32, 97, 46, 112, 100, 102, 10, 91, 50, 93, 32, 98, 46, 112, 100, 102>>
\* "- [1] a.pdf   (X)\n* [2] B.pdf"
AnnotatedText ==
  <<45, 32, 91, 49, 93, 32, 97, 46, 112, 100, 102, 32, 32, 32, 40, 88, 41, 10, 42, 32, 91,
    50, 93, 32, 66, 46, 112, 100, 102>>
\* "none"
NoReferences == <<110, 111, 110, 101>>
\* "[1] a.pdf\n\n[1] a.pdf  (Y)"
RepeatedText ==
  <<91, 49, 93, 32, 97, 46, 112, 100, 102, 10, 10, 91, 49, 93, 32, 97, 46, 112, 100, 102,
    32, 32, 40, 89, 41>>
\* "[1]\n a.pdf \n[x] b.pdf"
WrappedText ==
  <<91, 49, 93, 10, 32, 97, 46, 112, 100, 102, 32, 10, 91, 120, 93, 32, 98, 46, 112, 100,
    102>>

\* a document whose name ends in the name of another one
XA_PDF == <<120, 97, 46, 112, 100, 102>>
\* "[1] xa.pdf"
CitesXa == <<91, 49, 93, 32, 120, 97, 46, 112, 100, 102>>

\* a run as the report holds it: the response, the documents stored with it
\* (absent in some reports) and metrics of an earlier computation
StoredRun(text, present, docs) ==
  [responseText |-> text, retrievedDocuments |-> [present |-> present, docs |-> docs],
   recall |-> 0, precision |-> 0, f1 |-> 0, hit |-> FALSE, mrr |-> 0]

StoredLlm(runs) ==
  [runs |-> runs, avgRecall |-> 0, stdDevRecall |-> 0, avgPrecision |-> 0,
   stdDevPrecision |-> 0, avgF1 |-> 0, stdDevF1 |-> 0, hitRate |-> 0, avgMrr |-> 0,
   stdDevMrr |-> 0]

StoredResult(expected, has_llm, runs) ==
  [expectedDocuments |-> expected, has_llm |-> has_llm, llm |-> StoredLlm(runs)]

\* the results a report is made of
StoredResults ==
  {StoredResult(<<A_PDF, B_PDF>>, TRUE, <<StoredRun(CleanText, TRUE, <<A_PDF, B_PDF>>)>>),
   StoredResult(<<A_PDF, B_PDF>>, TRUE,
                <<StoredRun(AnnotatedText, TRUE, <<A_ANNOTATED, B_UPPER>>)>>),
   StoredResult(<<B_PDF, C_PDF>>, TRUE,
                <<StoredRun(CleanText, FALSE, <<>>), StoredRun(NoReferences, TRUE, <<>>)>>),
   StoredResult(<<A_PDF>>, TRUE, <<StoredRun(RepeatedText, TRUE, <<A_PDF, A_PDF>>)>>),
   StoredResult(<<A_PDF>>, TRUE, <<StoredRun(WrappedText, TRUE, <<A_PDF>>)>>),
   StoredResult(<<>>, TRUE, <<StoredRun(CleanText, TRUE, <<A_PDF, B_PDF>>)>>),
   StoredResult(<<A_PDF, XA_PDF>>, TRUE, <<StoredRun(CitesXa, TRUE, <<XA_PDF>>)>>),
   StoredResult(<<A_PDF>>, FALSE, <<>>)}

\* summary.llm of a report: absent, or the averages of an earlier computation
\* beside avgDurationSec
StoredSummaries ==
  {[present |-> FALSE, avgRecall |-> 0, avgPrecision |-> 0, avgF1 |-> 0, avgHitRate |-> 0,
    avgMrr |-> 0, avgDurationSec |-> 0],
   [present |-> TRUE, avgRecall |-> Million \div 2, avgPrecision |-> Million \div 4,
    avgF1 |-> Million \div 4, avgHitRate |-> Million, avgMrr |-> Million \div 2,
    avgDurationSec |-> 3]}

\* the reports: one or two results each
Reports ==
  {[summary_llm |-> s, results |-> rs] :
     s \in StoredSummaries,
     rs \in {<<r>> : r \in StoredResults} \cup {<<r, q>> : r, q \in StoredResults}}

\* the analysis is not part of this program
NoAnalysis ==
  /\ df = <<>>
  /\ feature_cols = <<>>
  /\ args = [phase |-> 0, suggestions |-> 1, treatment |-> NoTreatment]
  /\ pc = "done"
  /\ train = NotTrained
  /\ rec = NotRecommended
  /\ causal = NotEstimated
  /\ oracle = QuietCausalEnv

\* main before its loop: one report file, or two of one result each
InitRecompute ==
  /\ files \in {<<f>> : f \in Reports}
               \cup {<<f, g>> : f, g \in {r \in Reports : Len(r.results) = 1}}
  /\ dry_run \in BOOLEAN
  /\ returned = <<>>
  /\ surrogate = NotBuilt
  /\ NoAnalysis
SpecRecompute == InitRecompute /\ [][NextRecompute]_vars

\* C14: with --dry-run, process leaves the report file as it is, and returns
\* the old F1, the new F1 and the count of changed runs that process returns
\* on the same file without --dry-run
C14_DryRunWritesNothing ==
  [][dry_run =>
       /\ files' = files
       /\ returned' = Append(returned, ProcessOn(files[Len(returned) + 1], FALSE).returned)]_vars

\* a dry run has processed a file whose stored documents the recomputation
\* changes: the new F1 differs from the old one, and a write would have
\* changed the file
C14_Witness ==
  /\ dry_run /\ returned # <<>>
  /\ returned[1][3] > 0 /\ returned[1][1] # returned[1][2]
  /\ ProcessOn(files[1], FALSE).file # files[1]

-----------------------------------------------------------------------------
(* The parameter space on columns of every kind *)

\* one run more than an integer domain may have distinct values
MaxDistinct == MaxIntDistinct + 1

\* the columns tried for topK: one value, and more than five whole numbers
SpaceTopKs == {<<PyInt(10)>>, [i \in 1..(MaxRuns + 2) |-> PyInt(i)]}

\* the columns tried for a run parameter: never observed; whole and
\* fractional numbers, five of them and more, up to 31 of them; a number
\* missing; numbers and a word
SpaceParams ==
  {<<NaN>>,
   [i \in 1..MaxCategoricalDistinct |-> Dec(i, 5)],
   [i \in 1..MaxDistinct |-> Dec(i, 0)],
   [i \in 1..MaxDistinct |-> Dec(i \div 2, 5 * (i % 2))],
   [i \in 1..MaxDistinct |-> Dec(i \div 3, 0)],
   <<Dec(1, 0), NaN, Dec(2, 0), Dec(3, 0), Dec(4, 0), Dec(5, 0), Dec(6, 0)>>,
   <<Dec(256, 0), PyStr(<<97, 117, 116, 111>>), Dec(512, 0), Dec(1024, 0), Dec(2048, 0),
     Dec(4096, 0)>>}

\* histories of 31 runs for phase 3 alone, of 6 and 7 runs for every phase
LongTables ==
  ModeParamTables({MaxDistinct}, {<<hybrid, local>>}, SpaceTopKs, SpaceParams, {EveryTarget})
ShortTables ==
  ModeParamTables({MaxCategoricalDistinct + 1, MaxRuns}, {<<hybrid, local>>}, SpaceTopKs,
                  SpaceParams, {EveryTarget})
InitSpace ==
  InitWith(
    UNION {Starts(t, Args({3}, 1..MaxSuggestions, {NoTreatment}), {QuietOracle(t)}) :
             t \in LongTables}
    \cup UNION {Starts(t, Args({0, 3}, {1}, {NoTreatment}), {QuietOracle(t)}) :
                  t \in ShortTables})
SpecSpace == InitSpace /\ [][Next]_vars

\* the observed values of feature column j
Observed(j) == Range(dropna(Column(df, j)))

\* the least and the greatest observed number of column j, in twentieths
LeastObserved(j) == CHOOSE x \in {Num(v) : v \in Observed(j)} :
                      \A v \in Observed(j) : x <= Num(v)
GreatestObserved(j) == CHOOSE x \in {Num(v) : v \in Observed(j)} :
                         \A v \in Observed(j) : Num(v) <= x

\* C15: a parameter without an observed value is left out of the space; one
\* with a word among its values or with at most 5 distinct values is
\* categorical over the sorted strings of its values; otherwise it is
\* integer(min, max) if every value is whole and at most 30 are distinct;
\* otherwise real(min, max)
C15_SpaceClassifiesParameters ==
  rec.ran =>
    \A j \in DOMAIN feature_cols :
      IF Observed(j) = {} THEN rec.space[j].kind = "absent"
      ELSE IF (\E v \in Observed(j) : v.t = "str")
              \/ Cardinality(Observed(j)) <= MaxCategoricalDistinct
        THEN /\ rec.space[j].kind = "categorical"
             /\ Range(rec.space[j].choices) = {str(v) : v \in Observed(j)}
             /\ \A a, b \in DOMAIN rec.space[j].choices :
                  a < b => LexLess(rec.space[j].choices[a], rec.space[j].choices[b])
      ELSE IF (\A v \in Observed(j) : Num(v) % Scale = 0)
              /\ Cardinality(Observed(j)) <= MaxIntDistinct
        THEN /\ rec.space[j].kind = "int"
             /\ rec.space[j].lo * Scale = LeastObserved(j)
             /\ rec.space[j].hi * Scale = GreatestObserved(j)
      ELSE /\ rec.space[j].kind = "float"
           /\ rec.space[j].lo = LeastObserved(j)
           /\ rec.space[j].hi = GreatestObserved(j)

\* phase 3 has inferred, in one space, a categorical domain, an integer
\* domain, and a real domain for a column of 31 distinct whole numbers
C15_Witness ==
  /\ rec.ran
  /\ \E j \in DOMAIN rec.space : rec.space[j].kind = "categorical"
  /\ \E j \in DOMAIN rec.space : rec.space[j].kind = "int"
  /\ \E j \in DOMAIN rec.space :
       /\ rec.space[j].kind = "float"
       /\ Cardinality(Observed(j)) > MaxIntDistinct
       /\ \A v \in Observed(j) : Num(v) % Scale = 0

\* C16: every integer and every real domain of the inferred space has low
\* strictly below high, and a parameter whose observed values are all the
\* same one has a categorical domain of exactly one choice
C16_RangesNeverDegenerate ==
  rec.ran =>
    \A j \in DOMAIN feature_cols :
      /\ rec.space[j].kind \in {"int", "float"} => rec.space[j].lo < rec.space[j].hi
      /\ Cardinality(Observed(j)) = 1 =>
           /\ rec.space[j].kind = "categorical"
           /\ Len(rec.space[j].choices) = 1

\* phase 3 has inferred a range for one column, and a single choice for a
\* numeric column that holds one value in every run
C16_Witness ==
  /\ rec.ran
  /\ \E j \in DOMAIN rec.space : rec.space[j].kind \in {"int", "float"}
  /\ \E j \in DOMAIN rec.space :
       /\ Cardinality(Observed(j)) = 1
       /\ \A v \in Observed(j) : v.t \in {"int", "float"}
       /\ LeastObserved(j) = GreatestObserved(j)

-----------------------------------------------------------------------------
(* The automatic choice of the treatment *)

\* the parameters observed with exactly two distinct values
TwoValued == {j \in DOMAIN feature_cols : Cardinality(Observed(j)) = 2}

\* the targets of the runs whose parameter j is val
TargetsOf(j, val) ==
  SelectSeq(DropMissingTarget(df), LAMBDA row : row.cells[j] = val)

\* the categories that have a mean target, of the categorical parameters
\* observed with more than one value
Categories ==
  {c \in UNION {{<<j, v>> : v \in Observed(j)} : j \in DOMAIN feature_cols} :
     /\ \E v \in Observed(c[1]) : v.t = "str"
     /\ Cardinality(Observed(c[1])) > 1
     /\ TargetsOf(c[1], c[2]) # <<>>}

\* the sum of the targets of a category's runs, in ten-thousandths
TargetSum(c) ==
  SumSeq([i \in 1..Len(TargetsOf(c[1], c[2])) |-> TargetsOf(c[1], c[2])[i].target.n])

\* the mean target of category a is above that of category b
MeanAbove(a, b) ==
  TargetSum(a) * Len(TargetsOf(b[1], b[2])) > TargetSum(b) * Len(TargetsOf(a[1], a[2]))

\* the numeric parameters
NumericParams ==
  {j \in DOMAIN feature_cols : Observed(j) # {} /\ \A v \in Observed(j) : v.t # "str"}

\* the treatment of the i-th run with a target is 1 or 0 as said
TreatmentIs(i, one) == causal.assigned[i] = (IF one THEN PyInt(1) ELSE PyInt(0))

\* C20: without --treatment, the treatment estimated is (1) a parameter with
\* exactly two distinct observed values if there is one; (2) else the
\* categorical parameter of the category with the highest mean target, 1 for
\* the runs of that category and 0 for the others; (3) else the numeric
\* parameter of highest variance, 1 for the runs strictly above its median
\* and 0 for the others
C20_AutoTreatmentByRules ==
  (causal.ran /\ args.treatment = NoTreatment /\ causal.assigned # <<>>) =>
    IF TwoValued # {} THEN causal.treatment \in TwoValued
    ELSE IF Categories # {}
    THEN /\ <<causal.treatment, causal.pos_val>> \in Categories
         /\ \A c \in Categories : ~MeanAbove(c, <<causal.treatment, causal.pos_val>>)
         /\ \A i \in DOMAIN causal.assigned :
              TreatmentIs(i, DropMissingTarget(df)[i].cells[causal.treatment] = causal.pos_val)
    ELSE /\ causal.treatment \in NumericParams
         /\ \A j \in NumericParams : ~StdAbove(df, j, causal.treatment)
         /\ \A i \in DOMAIN causal.assigned :
              LET v == DropMissingTarget(df)[i].cells[causal.treatment]
              IN  TreatmentIs(i, ~isna(v) /\ Num(v) > median(Column(DropMissingTarget(df),
                                                                   causal.treatment)).n)

-----------------------------------------------------------------------------
(* The estimate, the refutations and the counterfactuals *)

\* phase4_dowhy went past every return: dowhy imported, 6 runs or more, a
\* treatment settled, CausalModel built, nothing raised
NotDeclined == causal.ran /\ causal.declined = "" /\ causal.raised = ""

\* a parameter other than the treatment whose column holds a word
CategoricalConfounders ==
  {j \in DOMAIN feature_cols :
     j # causal.treatment /\ \E v \in Observed(j) : v.t = "str"}

\* C21: whenever phase4_dowhy does not decline and some run carries the
\* target, it reports an ATE, the treatment coefficient of the regression of
\* the target on every parameter, also when a confounder is categorical
C21_AteWithCategoricalConfounders ==
  (NotDeclined /\ causal.rows >= 1) =>
    /\ causal.ate_reported
    /\ causal.ate = oracle.causal.coef

\* df_dw[feature_cols] as the run recorded in causal saw it
CausalDesign ==
  DesignColumns(df, DropMissingTarget(df), feature_cols, causal.treatment, causal.pos_val)

\* the regression of the recorded run fits a design whose cross-product is
\* singular
SingularDesign ==
  /\ NotDeclined /\ causal.treatment # 0 /\ causal.rows >= 1
  /\ RegressionFits(CausalDesign, causal.rows)
  /\ Singular(CausalDesign, causal.rows)

\* C22: when the cross-product of the design matrix is singular, the ATE is
\* still reported, with standard error 0 and p-value 1, and the refutations
\* and the counterfactuals follow
C22_SingularReportedWithZeroError ==
  SingularDesign =>
    /\ causal.ate_reported
    /\ causal.se = "0.0" /\ causal.p_val = "1.0"
    /\ (oracle.causal.estimand => Len(causal.refutations) = Len(RefutationMethods))
    /\ causal.counterfactuals # <<>>

\* what holds of a singular design whatever the rounding: the estimate is
\* never a failed one, and the later steps are reached
C22_SingularNeverFails ==
  SingularDesign =>
    /\ causal.ate_reported
    /\ causal.p_val \in {"1.0", "t_sf"}
    /\ (oracle.causal.estimand => Len(causal.refutations) = Len(RefutationMethods))
    /\ causal.counterfactuals # <<>>

\* C23: every refutation check that runs records the numeric re-estimated
\* effect and a flag that is pass exactly when |new_effect - ATE| <
\* 0.5 * |ATE|; the checks are advisory, the counterfactuals follow
C23_RefutationOutcomeRecorded ==
  /\ \A m \in DOMAIN causal.refutations :
       /\ causal.refutations[m].effect_printed
       /\ causal.refutations[m].flag = "pass"
            <=> 2 * Abs(oracle.causal.new_effect[m] - causal.ate) < Abs(causal.ate)
  /\ (causal.ate_reported => causal.counterfactuals # <<>>)

\* what holds of the refutation step: it never keeps the run from the
\* counterfactuals, and every check that runs ends in the warning of line 918
C23_RefutationOnlyAdvisory ==
  /\ \A m \in DOMAIN causal.refutations :
       causal.refutations[m].flag = "warn" /\ causal.refutations[m].exc # ""
  /\ (causal.ate_reported => causal.counterfactuals # <<>>)

\* C24: the counterfactual table holds the first min(5, rows) runs with a
\* target, in input order, and each delta is treatment_coefficient *
\* (flipped - observed): +coefficient for an observed treatment of 0,
\* -coefficient for 1
C24_CounterfactualsOfFirstRuns ==
  causal.ate_reported =>
    /\ Len(causal.counterfactuals) = Min2(MaxCounterfactuals, RunsWithTarget)
    /\ \A i \in DOMAIN causal.counterfactuals :
         /\ causal.counterfactuals[i].row = DropMissingTarget(df)[i].label
         /\ causal.counterfactuals[i].actual = causal.treatment_values[i]
         /\ causal.counterfactuals[i].delta =
              causal.ate * (causal.counterfactuals[i].counterfactual * Scale
                            - Num(causal.counterfactuals[i].actual))
         /\ Num(causal.counterfactuals[i].actual) = 0
              => causal.counterfactuals[i].delta = causal.ate * Scale
         /\ Num(causal.counterfactuals[i].actual) = Scale
              => causal.counterfactuals[i].delta = -causal.ate * Scale

\* more than five runs with a target, one without, treatments 0 and 1 among
\* the five reported
C24_Witness ==
  /\ Len(causal.counterfactuals) = MaxCounterfactuals
  /\ MaxCounterfactuals < RunsWithTarget /\ RunsWithTarget < Len(df)
  /\ \E i, k \in DOMAIN causal.counterfactuals :
       /\ Num(causal.counterfactuals[i].actual) = 0
       /\ Num(causal.counterfactuals[k].actual) = Scale

-----------------------------------------------------------------------------
(* _build_surrogate on every model type and row count *)

\* largest n_samples tried: beyond 20 the estimator count stays at 300
MaxSamples == 24

\* a call of _build_surrogate is pending: the arguments are there, the
\* regressor is not
InitSurrogate ==
  /\ \E mt \in {"rf", "xgb"}, n \in 0..MaxSamples, x \in BOOLEAN :
       surrogate = [NotBuilt EXCEPT !.model_type = mt, !.n_samples = n, !.xgboost = x]
  /\ files = <<>>
  /\ dry_run = FALSE
  /\ returned = <<>>
  /\ NoAnalysis

\* the call returns
BuildSurrogate ==
  /\ surrogate.model_type # ""
  /\ surrogate.model = NoSurrogate
  /\ surrogate' = Built(surrogate.model_type, surrogate.n_samples, surrogate.xgboost)
  /\ UNCHANGED <<df, feature_cols, args, pc, train, rec, causal, oracle>>
  /\ UNCHANGED recompute_vars

NextSurrogate == BuildSurrogate
SpecSurrogate == InitSurrogate /\ [][NextSurrogate]_vars

\* x held between lo and hi
Clamp(x, lo, hi) == IF x < lo THEN lo ELSE IF x > hi THEN hi ELSE x

\* C25: the estimator count is clamp(15 n, 50, 300) and the depth is
\* clamp(n - 1, 2, 5) for the random forest and clamp(n - 1, 2, 4) for the
\* boosted model, neither decreases as n grows, and the boosted model asked
\* for without xgboost is the random forest of these sizes
C25_SurrogateSizes ==
  surrogate.model # NoSurrogate =>
    /\ surrogate.model.n_estimators = Clamp(15 * surrogate.n_samples, 50, 300)
    /\ surrogate.model.kind =
         (IF surrogate.model_type = "xgb" /\ surrogate.xgboost THEN "xgb" ELSE "rf")
    /\ surrogate.model.max_depth =
         Clamp(surrogate.n_samples - 1, 2, IF surrogate.model.kind = "rf" THEN 5 ELSE 4)
    /\ \A m \in 0..surrogate.n_samples :
         /\ _build_surrogate(surrogate.model_type, m, surrogate.xgboost).n_estimators
              <= surrogate.model.n_estimators
         /\ _build_surrogate(surrogate.model_type, m, surrogate.xgboost).max_depth
              <= surrogate.model.max_depth

\* the boosted model is asked for without xgboost, on more rows than either
\* upper bound lets through
C25_Witness ==
  /\ surrogate.model_type = "xgb" /\ ~surrogate.xgboost
  /\ surrogate.model.kind = "rf"
  /\ surrogate.model.n_estimators = 300 /\ 15 * surrogate.n_samples > 300
  /\ surrogate.model.max_depth = 5 /\ surrogate.n_samples - 1 > 5

-----------------------------------------------------------------------------
(* The encoded table *)

\* the columns of the encoded table that are indicators of parameter j
Indicators(j) ==
  {c \in DOMAIN train.X.columns :
     \E v \in Observed(j) : train.X.columns[c] = DummyName(feature_cols[j], str(v))}

\* the sum of row i of the encoded table over the indicators of parameter j
IndicatorSum(i, j) ==
  SumSeq([c \in 1..Len(train.X.columns) |->
            IF c \in Indicators(j) THEN train.X.rows[i][c].n ELSE 0])

\* C26: in the encoded table the indicator columns of a categorical parameter
\* sum to 1 in a row that has a value for it and are all 0 in a row that has
\* none; the rows keep the input order; a numeric cell that was missing holds
\* the median of the column and any other numeric cell is unchanged
\* (the median pandas gives a column without any value is NaN)
C26_EncodedRows ==
  train.fitted =>
    /\ Len(train.X.rows) = Len(df)
    /\ \A i \in DOMAIN df : \A j \in DOMAIN feature_cols :
         IF is_numeric_dtype(Column(df, j))
         THEN \E c \in DOMAIN train.X.columns :
                /\ train.X.columns[c] = feature_cols[j]
                /\ train.X.rows[i][c] = IF isna(df[i].cells[j])
                                        THEN median(Column(df, j))
                                        ELSE float(df[i].cells[j])
         ELSE /\ \A c \in Indicators(j) : train.X.rows[i][c].n \in {0, Scale}
              /\ IndicatorSum(i, j) = IF isna(df[i].cells[j]) THEN 0 ELSE Scale

\* a run without a value for a categorical parameter of two categories, and
\* a run without a value for a numeric parameter that other runs have
C26_Witness ==
  /\ train.fitted
  /\ \E j \in DOMAIN feature_cols :
       /\ ~is_numeric_dtype(Column(df, j))
       /\ Cardinality(Indicators(j)) >= 2
       /\ \E i \in DOMAIN df : isna(df[i].cells[j]) /\ IndicatorSum(i, j) = 0
       /\ \E i \in DOMAIN df : IndicatorSum(i, j) = Scale
  /\ \E j \in DOMAIN feature_cols :
       /\ is_numeric_dtype(Column(df, j))
       /\ \E i, k \in DOMAIN df : isna(df[i].cells[j]) /\ ~isna(df[k].cells[j])

-----------------------------------------------------------------------------
(* The treatment column of the regression *)

\* the treatment column the regression and the counterfactuals saw is 0 or 1
\* in every run, and every counterfactual treatment is the other of the two
BinaryTreatment ==
  /\ \A i \in DOMAIN causal.treatment_values : Num(causal.treatment_values[i]) \in {0, Scale}
  /\ \A i \in DOMAIN causal.counterfactuals :
       /\ causal.counterfactuals[i].counterfactual \in {0, 1}
       /\ causal.counterfactuals[i].counterfactual * Scale
            # Num(causal.counterfactuals[i].actual)

\* C27: whenever an ATE or counterfactuals are computed, the treatment column
\* holds only 0 and 1, for every rule of the automatic choice and for a
\* treatment supplied on the command line, so the counterfactual treatment
\* 1 - observed is 0 or 1 and differs from the observed one
C27_TreatmentIsBinary ==
  (causal.ate_reported \/ causal.counterfactuals # <<>>) => BinaryTreatment

\* the same for the treatment the automatic choice settles on
C27_AutoTreatmentIsBinary ==
  ((causal.ate_reported \/ causal.counterfactuals # <<>>) /\ causal.rule # "given")
    => BinaryTreatment

\* C28: the run label of every counterfactual row is the label of the run
\* whose treatment and predictions the row carries, also when a run without a
\* target comes before it in the table
C28_CounterfactualLabelOfSameRun ==
  \A i \in DOMAIN causal.counterfactuals :
    causal.counterfactuals[i].run = causal.counterfactuals[i].row

\* C29: whenever a p-value is computed, the degrees of freedom of the
\* two-sided t-test, rows - columns - 1, are at least 1
C29_DegreesOfFreedomPositive ==
  causal.p_val = "t_sf" => causal.dof >= 1

-----------------------------------------------------------------------------
(* The metrics of one run *)

\* the runs of the files processed so far, with their expected documents
ProcessedRuns ==
  UNION {UNION {{[run |-> files[f].results[k].llm.runs[i],
                  expected |-> files[f].results[k].expectedDocuments] :
                   i \in DOMAIN files[f].results[k].llm.runs} :
                  k \in {k \in DOMAIN files[f].results : files[f].results[k].has_llm}} :
           f \in {f \in DOMAIN files : f <= Len(returned) /\ ~dry_run}}

\* C30: recall, precision, F1 and MRR of a run are each within [0, 1]; all
\* are 0 with hit = false when no document is expected; MRR is 1 / rank of
\* the first retrieved document that matches an expected one, 0 without one
C30_RunMetricsWithinUnit ==
  \A r \in ProcessedRuns :
    /\ r.run.recall \in 0..Million /\ r.run.precision \in 0..Million
    /\ r.run.f1 \in 0..Million /\ r.run.mrr \in 0..Million
    /\ r.expected = <<>> =>
         /\ r.run.recall = 0 /\ r.run.precision = 0 /\ r.run.f1 = 0 /\ r.run.mrr = 0
         /\ ~r.run.hit
    /\ r.expected # <<>> =>
         r.run.mrr = IF FirstHit(r.run.retrievedDocuments.docs, r.expected) = 0 THEN 0
                     ELSE RoundDiv(Million, FirstHit(r.run.retrievedDocuments.docs, r.expected))

\* what holds of every run: recall and MRR are within [0, 1] and MRR is the
\* reciprocal rank of the first match
C30_RecallAndMrrWithinUnit ==
  \A r \in ProcessedRuns :
    /\ r.run.recall \in 0..Million /\ r.run.mrr \in 0..Million
    /\ r.expected = <<>> =>
         /\ r.run.recall = 0 /\ r.run.precision = 0 /\ r.run.f1 = 0 /\ r.run.mrr = 0
         /\ ~r.run.hit
    /\ r.expected # <<>> =>
         r.run.mrr = IF FirstHit(r.run.retrievedDocuments.docs, r.expected) = 0 THEN 0
                     ELSE RoundDiv(Million, FirstHit(r.run.retrievedDocuments.docs, r.expected))

====
